---- MODULE Spec2Model ----
(***************************************************************************)
(* Intellistep: the stepper motor core (src/src/hardware/motor.cpp), its   *)
(* coil driver and the state machine behind M17/M18/M84.                   *)
(*                                                                         *)
(* Numbers.  Angles are floats in the firmware.  Here an angle is an       *)
(* integer count of 1/1280 degree, the unit in which every full step       *)
(* angle, every microstep angle (0.9/32 degree = 36 units) and every       *)
(* multiple of a quarter microstep is a whole number.  The microstep       *)
(* multiplier is counted in quarters.  Float rounding error is not         *)
(* modelled.                                                               *)
(***************************************************************************)
EXTENDS Integers, Sequences, FiniteSets, TLC

\* ------------------------------------------------------------------ units
Deg == 5 * 256                 \* one degree, in angle units
MultOne == 2 * 2               \* the multiplier 1.0, in quarters

\* ----------------------------------------------------------------- bounds
\* The step accumulator is unbounded in the firmware; a behaviour here holds
\* at most MaxSteps calls of the stepping primitives.
MaxSteps == 2

\* driveCoils takes any int32_t; it is called here with the step counts
\* -MaxCount .. MaxCount, and compared over -MaxPeriods .. MaxPeriods
\* electrical cycles (driveCoils) or turns (driveCoilsAngle).
MaxCount == 35
MaxPeriods == 2

\* ------------------------------------------------------------ enumerations
\* motor.h:23-29
COIL_STATE == {"COIL_NOT_SET", "FORWARD", "BACKWARD", "BRAKE", "COAST"}

\* motor.h:49-59 (a build with ENABLE_OVERTEMP_PROTECTION)
MOTOR_STATE == {"MOTOR_NOT_SET", "ENABLED", "DISABLED", "FORCED_ENABLED",
                "FORCED_DISABLED", "OVERTEMP"}

\* The direction argument of step(), motor.cpp:258-269
STEP_DIR == {"PIN", "COUNTER_CLOCKWISE", "CLOCKWISE"}

\* config.h is not part of the sources: the idle mode is coast (spec 4.3)
IDLE_MODE == "COAST"

\* ------------------------------------------------- sine table (spec 4.1)
SINE_VAL_COUNT == 128
SINE_MAX == 10000

sineTable ==
    << 0, 491, 980, 1467, 1951, 2430, 2903, 3369, 3827, 4276, 4714, 5141, 5556, 5957, 6344, 6716,
       7071, 7410, 7730, 8032, 8315, 8577, 8819, 9040, 9239, 9415, 9569, 9700, 9808, 9892, 9952, 9988,
       10000, 9988, 9952, 9892, 9808, 9700, 9569, 9415, 9239, 9040, 8819, 8577, 8315, 8032, 7730, 7410,
       7071, 6716, 6344, 5957, 5556, 5141, 4714, 4276, 3827, 3369, 2903, 2430, 1951, 1467, 980, 491,
       0, -491, -980, -1467, -1951, -2430, -2903, -3369, -3827, -4276, -4714, -5141, -5556, -5957, -6344, -6716,
       -7071, -7410, -7730, -8032, -8315, -8577, -8819, -9040, -9239, -9415, -9569, -9700, -9808, -9892, -9952, -9988,
       -10000, -9988, -9952, -9892, -9808, -9700, -9569, -9415, -9239, -9040, -8819, -8577, -8315, -8032, -7730, -7410,
       -7071, -6716, -6344, -5957, -5556, -5141, -4714, -4276, -3827, -3369, -2903, -2430, -1951, -1467, -980, -491 >>

fastSin(index) == sineTable[(index % SINE_VAL_COUNT) + 1]

fastCos(index) == sineTable[((index + (SINE_VAL_COUNT \div 4)) % SINE_VAL_COUNT) + 1]

\* --------------------------------------------------------- C arithmetic
\* The % of C: the remainder takes the sign of the dividend.
CRem(a, b) == IF a >= 0 THEN a % b ELSE -((-a) % b)

\* The / of C on integers: truncation toward zero.
CDiv(a, b) == IF a >= 0 THEN a \div b ELSE -((-a) \div b)

\* round(n / d) for n >= 0, d > 0: halves go away from zero.
RoundDiv(n, d) == ((2 * n) + d) \div (2 * d)

\* abs() of Arduino.h
Abs(x) == IF x > 0 THEN x ELSE -x

\* steps & (SINE_VAL_COUNT - 1) on a two's complement int32
MaskIndex(steps) == steps % SINE_VAL_COUNT

\* The casts (int16_t) and (uint16_t)
ToInt16(x) == ((x + 32768) % 65536) - 32768

ToUint16(x) == x % 65536

\* ---------------------------------------------------------------- state
VARIABLES
    state,                \* MOTOR_STATE state
    currentAngle,         \* float currentAngle
    desiredAngle,         \* float desiredAngle
    currentStep,          \* int32_t currentStep
    previousCoilStateA,   \* COIL_STATE previousCoilStateA
    previousCoilStateB,   \* COIL_STATE previousCoilStateB
    coilADir,             \* levels of COIL_A_DIR_1_PIN, COIL_A_DIR_2_PIN
    coilBDir,             \* levels of COIL_B_DIR_1_PIN, COIL_B_DIR_2_PIN
    pwmDutyA,             \* duty of COIL_POWER_OUTPUT_PINS[A]
    pwmDutyB,             \* duty of COIL_POWER_OUTPUT_PINS[B]
    fullStepAngle,        \* float fullStepAngle
    microstepDivisor,     \* uint16_t microstepDivisor
    microstepAngle,       \* float microstepAngle
    reversed,             \* 1 or -1
    microstepMultiplier,  \* float microstepMultiplier (quarters)
    peakCurrent,          \* uint16_t peakCurrent (mA)
    rmsCurrent,           \* uint16_t rmsCurrent (mA)
    dynamicAccelCurrent,  \* uint16_t dynamicAccelCurrent (ENABLE_DYNAMIC_CURRENT)
    dynamicIdleCurrent,   \* uint16_t dynamicIdleCurrent (ENABLE_DYNAMIC_CURRENT)
    dynamicMaxCurrent,    \* uint16_t dynamicMaxCurrent (ENABLE_DYNAMIC_CURRENT)
    startupAngleOffset,   \* float startupAngleOffset
    pid,                  \* the StepperPID object pid (parser.cpp:129)
    pc,                   \* the statement a preempted setter call is at
    trace,                \* the hardware accesses of the last call, in order
    lastOp,               \* the last call and its arguments
    pre,                  \* what getState() returned when the last call began
    stepCalls             \* the calls of step() and simpleStep() so far

vars == << state, currentAngle, desiredAngle, currentStep, previousCoilStateA,
           previousCoilStateB, coilADir, coilBDir, pwmDutyA, pwmDutyB,
           fullStepAngle, microstepDivisor, microstepAngle, reversed,
           microstepMultiplier, peakCurrent, rmsCurrent, dynamicAccelCurrent,
           dynamicIdleCurrent, dynamicMaxCurrent, startupAngleOffset,
           pid, pc, trace, lastOp, pre, stepCalls >>

\* The static current fields and the dynamic current factors belong to the
\* two builds of motor.cpp:44-130; each specification below uses the fields of
\* one build and leaves the others at their configured values.
\*
\* The motor object and the pins it drives, as one record: the motor as a
\* call finds it, with an empty trace and with what the angle sensor and the
\* direction pin read during the call.
Begin(angle, level) ==
    [ state |-> state, currentAngle |-> currentAngle, desiredAngle |-> desiredAngle,
      currentStep |-> currentStep,
      previousCoilStateA |-> previousCoilStateA, previousCoilStateB |-> previousCoilStateB,
      coilADir |-> coilADir, coilBDir |-> coilBDir,
      pwmDutyA |-> pwmDutyA, pwmDutyB |-> pwmDutyB,
      fullStepAngle |-> fullStepAngle, microstepDivisor |-> microstepDivisor,
      microstepAngle |-> microstepAngle, reversed |-> reversed,
      microstepMultiplier |-> microstepMultiplier, peakCurrent |-> peakCurrent,
      rmsCurrent |-> rmsCurrent, dynamicAccelCurrent |-> dynamicAccelCurrent,
      dynamicIdleCurrent |-> dynamicIdleCurrent,
      dynamicMaxCurrent |-> dynamicMaxCurrent,
      startupAngleOffset |-> startupAngleOffset,
      trace |-> << >>, encoderAngle |-> angle, directionPin |-> level ]

\* One entry of the trace.  ev is "setCoil" (a call of setCoilA or setCoilB,
\* level the desired state, val the current), "pwm" (analogSet, val the
\* duty), "dir1" or "dir2" (GPIO_WRITE of a coil direction pin), "cache" (the
\* assignment of previousCoilStateA or B, level the state stored), "getAngle"
\* (val the angle read) or "readDir" (GPIO_READ of DIRECTION_PIN).
Event(ev, ch, level, val) == [ev |-> ev, ch |-> ch, level |-> level, val |-> val]

Log(m, e) == [m EXCEPT !.trace = Append(@, e)]

\* --------------------------------------------------------- coil driver
\* motor.cpp:469-476, with the board constants of config.h (not in the
\* sources): 0.2 ohm sense resistor, 3.3 V, 12 bit PWM.
PWM_MAX_DUTY_CYCLE == 4095
CURRENT_SENSE_RESISTOR_TENTHS == 2
BOARD_VOLTAGE_TENTHS == 33

constrain(x, lo, hi) == IF x < lo THEN lo ELSE IF x > hi THEN hi ELSE x

\* currentToPWM with the product kept in 16 bits
currentToPWM_shortProduct(current) ==
    constrain(ToUint16(PWM_MAX_DUTY_CYCLE * CURRENT_SENSE_RESISTOR_TENTHS * Abs(current))
                  \div (BOARD_VOLTAGE_TENTHS * 100),
              0, PWM_MAX_DUTY_CYCLE)

currentToPWM(current) ==
    constrain((PWM_MAX_DUTY_CYCLE * CURRENT_SENSE_RESISTOR_TENTHS * Abs(current))
                  \div (BOARD_VOLTAGE_TENTHS * 100),
              0, PWM_MAX_DUTY_CYCLE)

\* The truth table of motor.cpp:400-415: the levels written to the two
\* direction pins, or none for a state the chain of else-ifs does not name.
DirLevels(desiredState) ==
    CASE desiredState = "FORWARD"  -> << "HIGH", "LOW" >>
      [] desiredState = "BACKWARD" -> << "LOW", "HIGH" >>
      [] desiredState = "BRAKE"    -> << "HIGH", "HIGH" >>
      [] desiredState = "COAST"    -> << "LOW", "LOW" >>
      [] OTHER                     -> << >>

\* setCoilA without the test against the cached state
setCoilA_alwaysWrite(m, desiredState, current) ==
    LET lv == DirLevels(desiredState)
        m0 == Log(m, Event("setCoil", "A", desiredState, current))
        m1 == Log([m0 EXCEPT !.pwmDutyA = 0], Event("pwm", "A", "", 0))
        m2 == IF lv # << >>
              THEN Log(Log([m1 EXCEPT !.coilADir = lv],
                           Event("dir1", "A", lv[1], 0)),
                       Event("dir2", "A", lv[2], 0))
              ELSE m1
        m3 == Log([m2 EXCEPT !.previousCoilStateA = desiredState],
                  Event("cache", "A", desiredState, 0))
    IN  Log([m3 EXCEPT !.pwmDutyA = currentToPWM(current)],
            Event("pwm", "A", "", currentToPWM(current)))

\* setCoilA that writes the direction pins before it disables the coil
setCoilA_pinsFirst(m, desiredState, current) ==
    LET changed == desiredState # m.previousCoilStateA
        lv == DirLevels(desiredState)
        m0 == Log(m, Event("setCoil", "A", desiredState, current))
        m1 == IF changed /\ lv # << >>
              THEN Log(Log([m0 EXCEPT !.coilADir = lv],
                           Event("dir1", "A", lv[1], 0)),
                       Event("dir2", "A", lv[2], 0))
              ELSE m0
        m2 == IF changed
              THEN Log([m1 EXCEPT !.pwmDutyA = 0], Event("pwm", "A", "", 0))
              ELSE m1
        m3 == IF changed
              THEN Log([m2 EXCEPT !.previousCoilStateA = desiredState],
                       Event("cache", "A", desiredState, 0))
              ELSE m2
    IN  Log([m3 EXCEPT !.pwmDutyA = currentToPWM(current)],
            Event("pwm", "A", "", currentToPWM(current)))

\* setCoilA that writes the COAST levels for BRAKE
setCoilA_brakeAsCoast(m, desiredState, current) ==
    LET changed == desiredState # m.previousCoilStateA
        lv == DirLevels(IF desiredState = "BRAKE" THEN "COAST" ELSE desiredState)
        m0 == Log(m, Event("setCoil", "A", desiredState, current))
        m1 == IF changed
              THEN Log([m0 EXCEPT !.pwmDutyA = 0], Event("pwm", "A", "", 0))
              ELSE m0
        m2 == IF changed /\ lv # << >>
              THEN Log(Log([m1 EXCEPT !.coilADir = lv],
                           Event("dir1", "A", lv[1], 0)),
                       Event("dir2", "A", lv[2], 0))
              ELSE m1
        m3 == IF changed
              THEN Log([m2 EXCEPT !.previousCoilStateA = desiredState],
                       Event("cache", "A", desiredState, 0))
              ELSE m2
    IN  Log([m3 EXCEPT !.pwmDutyA = currentToPWM(current)],
            Event("pwm", "A", "", currentToPWM(current)))

setCoilA(m, desiredState, current) ==
    LET changed == desiredState # m.previousCoilStateA
        lv == DirLevels(desiredState)
        m0 == Log(m, Event("setCoil", "A", desiredState, current))
        m1 == IF changed
              THEN Log([m0 EXCEPT !.pwmDutyA = 0], Event("pwm", "A", "", 0))
              ELSE m0
        m2 == IF changed /\ lv # << >>
              THEN Log(Log([m1 EXCEPT !.coilADir = lv],
                           Event("dir1", "A", lv[1], 0)),
                       Event("dir2", "A", lv[2], 0))
              ELSE m1
        m3 == IF changed
              THEN Log([m2 EXCEPT !.previousCoilStateA = desiredState],
                       Event("cache", "A", desiredState, 0))
              ELSE m2
    IN  Log([m3 EXCEPT !.pwmDutyA = currentToPWM(current)],
            Event("pwm", "A", "", currentToPWM(current)))

setCoilB(m, desiredState, current) ==
    LET changed == desiredState # m.previousCoilStateB
        lv == DirLevels(desiredState)
        m0 == Log(m, Event("setCoil", "B", desiredState, current))
        m1 == IF changed
              THEN Log([m0 EXCEPT !.pwmDutyB = 0], Event("pwm", "B", "", 0))
              ELSE m0
        m2 == IF changed /\ lv # << >>
              THEN Log(Log([m1 EXCEPT !.coilBDir = lv],
                           Event("dir1", "B", lv[1], 0)),
                       Event("dir2", "B", lv[2], 0))
              ELSE m1
        m3 == IF changed
              THEN Log([m2 EXCEPT !.previousCoilStateB = desiredState],
                       Event("cache", "B", desiredState, 0))
              ELSE m2
    IN  Log([m3 EXCEPT !.pwmDutyB = currentToPWM(current)],
            Event("pwm", "B", "", currentToPWM(current)))

\* ------------------------------------------------------ stepping primitives
\* motor.cpp:311-312 (static current): the signed power of a coil
CoilPower(peak, percent) == ToInt16(CDiv(ToInt16(peak) * percent, SINE_MAX))

\* driveCoils that hands a negative power on as it is
driveCoils_noNegation(m, steps) ==
    LET reduced == CRem(steps, 4 * m.microstepDivisor)
        arrayIndex == MaskIndex(reduced)
        coilAPower == CoilPower(m.peakCurrent, fastSin(arrayIndex))
        coilBPower == CoilPower(m.peakCurrent, fastCos(arrayIndex))
        mA == IF coilAPower > 0 THEN setCoilA(m, "FORWARD", coilAPower)
              ELSE IF coilAPower < 0 THEN setCoilA(m, "BACKWARD", ToUint16(coilAPower))
              ELSE setCoilA(m, "BRAKE", 0)
    IN  IF coilBPower > 0 THEN setCoilB(mA, "FORWARD", coilBPower)
        ELSE IF coilBPower < 0 THEN setCoilB(mA, "BACKWARD", ToUint16(coilBPower))
        ELSE setCoilB(mA, "BRAKE", 0)

\* driveCoils with the cosine entry for coil A and the sine entry for coil B
driveCoils_tablesSwapped(m, steps) ==
    LET reduced == CRem(steps, 4 * m.microstepDivisor)
        arrayIndex == MaskIndex(reduced)
        coilAPower == CoilPower(m.peakCurrent, fastCos(arrayIndex))
        coilBPower == CoilPower(m.peakCurrent, fastSin(arrayIndex))
        mA == IF coilAPower > 0 THEN setCoilA(m, "FORWARD", coilAPower)
              ELSE IF coilAPower < 0 THEN setCoilA(m, "BACKWARD", ToUint16(-coilAPower))
              ELSE setCoilA(m, "BRAKE", 0)
    IN  IF coilBPower > 0 THEN setCoilB(mA, "FORWARD", coilBPower)
        ELSE IF coilBPower < 0 THEN setCoilB(mA, "BACKWARD", ToUint16(-coilBPower))
        ELSE setCoilB(mA, "BRAKE", 0)

driveCoils(m, steps) ==
    LET reduced == CRem(steps, 4 * m.microstepDivisor)
        arrayIndex == MaskIndex(reduced)
        coilAPower == CoilPower(m.peakCurrent, fastSin(arrayIndex))
        coilBPower == CoilPower(m.peakCurrent, fastCos(arrayIndex))
        mA == IF coilAPower > 0 THEN setCoilA(m, "FORWARD", coilAPower)
              ELSE IF coilAPower < 0 THEN setCoilA(m, "BACKWARD", ToUint16(-coilAPower))
              ELSE setCoilA(m, "BRAKE", 0)
    IN  IF coilBPower > 0 THEN setCoilB(mA, "FORWARD", coilBPower)
        ELSE IF coilBPower < 0 THEN setCoilB(mA, "BACKWARD", ToUint16(-coilBPower))
        ELSE setCoilB(mA, "BRAKE", 0)

\* motor.cpp:360-370: the while loop that brings the angle into 0..360
RECURSIVE ConstrainAngle(_)
ConstrainAngle(a) ==
    IF a < 0 THEN ConstrainAngle(a + (360 * Deg))
    ELSE IF a > 360 * Deg THEN ConstrainAngle(a - (360 * Deg))
    ELSE a

\* motor.cpp:352-357: the round-based shortcut
RoundAngle(a) ==
    IF a < 0 THEN a + (RoundDiv(Abs(a), 360 * Deg) * (360 * Deg))
    ELSE IF a > 360 * Deg THEN a - (RoundDiv(a, 360 * Deg) * (360 * Deg))
    ELSE a

\* driveCoilsAngle without the factor microstepDivisor: the angle in full
\* steps
driveCoilsAngle_fullSteps(m, degAngle) ==
    LET a == ConstrainAngle(RoundAngle(degAngle))
        roundedMicrosteps == ToUint16(RoundDiv(a, m.fullStepAngle))
    IN  driveCoils(m, roundedMicrosteps)

driveCoilsAngle(m, degAngle) ==
    LET a == ConstrainAngle(RoundAngle(degAngle))
        roundedMicrosteps == ToUint16(RoundDiv(a * m.microstepDivisor, m.fullStepAngle))
    IN  driveCoils(m, roundedMicrosteps)

\* config.h is not part of the sources: the sign of the direction pin
DIRECTION(level) == IF level = "HIGH" THEN 1 ELSE -1

\* GPIO_READ(DIRECTION_PIN)
readDirectionPin(m) == Log(m, Event("readDir", "", m.directionPin, 0))

getSign(num) == IF num < 0 THEN -1 ELSE 1

\* float to int32_t: the fraction is dropped
Trunc(quarters) == CDiv(quarters, MultOne)

\* simpleStep without the reversed flag
simpleStep_pinOnly(m) ==
    LET moved == (m.currentStep * MultOne)
                     + (DIRECTION(m.directionPin) * m.microstepMultiplier)
        m1 == [readDirectionPin(m) EXCEPT !.currentStep = Trunc(moved)]
    IN  driveCoils(m1, m1.currentStep)

simpleStep(m) ==
    LET moved == (m.currentStep * MultOne)
                     + (DIRECTION(m.directionPin) * m.reversed * m.microstepMultiplier)
        m1 == [readDirectionPin(m) EXCEPT !.currentStep = Trunc(moved)]
    IN  driveCoils(m1, m1.currentStep)

\* step with the sign of the direction pin and the reversed flag in every
\* mode
step_pinSign(m, dir, useMultiplier, updateDesiredAngle) ==
    LET scaled == IF useMultiplier
                  THEN CDiv(m.microstepAngle * m.microstepMultiplier, MultOne)
                  ELSE m.microstepAngle
        stepChange == IF useMultiplier THEN Trunc(m.microstepMultiplier) ELSE 1
        angleChange == scaled * DIRECTION(m.directionPin) * m.reversed
        m0 == readDirectionPin(m)
        m1 == IF updateDesiredAngle
              THEN [m0 EXCEPT !.desiredAngle = @ + angleChange]
              ELSE m0
        m2 == [m1 EXCEPT !.currentAngle = @ + angleChange,
                         !.currentStep = @ + (getSign(angleChange) * stepChange)]
    IN  driveCoils(m2, m2.currentStep)

\* step that moves desiredAngle whatever updateDesiredAngle says
step_alwaysDesired(m, dir, useMultiplier, updateDesiredAngle) ==
    LET scaled == IF useMultiplier
                  THEN CDiv(m.microstepAngle * m.microstepMultiplier, MultOne)
                  ELSE m.microstepAngle
        stepChange == IF useMultiplier THEN Trunc(m.microstepMultiplier) ELSE 1
        angleChange == CASE dir = "PIN" -> scaled * DIRECTION(m.directionPin) * m.reversed
                         [] dir = "CLOCKWISE" -> -scaled
                         [] OTHER -> scaled
        m0 == IF dir = "PIN" THEN readDirectionPin(m) ELSE m
        m2 == [m0 EXCEPT !.desiredAngle = @ + angleChange,
                         !.currentAngle = @ + angleChange,
                         !.currentStep = @ + (getSign(angleChange) * stepChange)]
    IN  driveCoils(m2, m2.currentStep)

step(m, dir, useMultiplier, updateDesiredAngle) ==
    LET scaled == IF useMultiplier
                  THEN CDiv(m.microstepAngle * m.microstepMultiplier, MultOne)
                  ELSE m.microstepAngle
        stepChange == IF useMultiplier THEN Trunc(m.microstepMultiplier) ELSE 1
        angleChange == CASE dir = "PIN" -> scaled * DIRECTION(m.directionPin) * m.reversed
                         [] dir = "CLOCKWISE" -> -scaled
                         [] OTHER -> scaled
        m0 == IF dir = "PIN" THEN readDirectionPin(m) ELSE m
        m1 == IF updateDesiredAngle
              THEN [m0 EXCEPT !.desiredAngle = @ + angleChange]
              ELSE m0
        m2 == [m1 EXCEPT !.currentAngle = @ + angleChange,
                         !.currentStep = @ + (getSign(angleChange) * stepChange)]
    IN  driveCoils(m2, m2.currentStep)

\* ---------------------------------------------------------- state machine
getAngle(m) == m.encoderAngle

\* motor.cpp:503-508, 513-518, 537-542: lock the coils at the shaft angle,
\* correct the tracked angle, set the state of the case label.
relock(m, caseState) ==
    LET m1 == driveCoilsAngle(Log(m, Event("getAngle", "", "", getAngle(m))),
                              getAngle(m) - m.startupAngleOffset)
        m2 == Log(m1, Event("getAngle", "", "", getAngle(m)))
    IN  [m2 EXCEPT !.currentAngle = getAngle(m) - m.startupAngleOffset,
                   !.state = caseState]

\* motor.cpp:521-524, 545-548: the default label
idleCoils(m, newState) ==
    [setCoilB(setCoilA(m, IDLE_MODE, 0), IDLE_MODE, 0) EXCEPT !.state = newState]

\* setState without the test of the current state in the branch that keeps
\* the errors
setState_notSticky(m, newState, clearErrors) ==
    IF m.state = newState THEN m
    ELSE IF clearErrors
    THEN LET m1 == IF newState = "ENABLED" THEN relock(m, "ENABLED") ELSE m
             m2 == IF newState \in {"ENABLED", "FORCED_ENABLED"}
                   THEN relock(m1, "FORCED_ENABLED")
                   ELSE m1
         IN  idleCoils(m2, newState)
    ELSE LET m1 == IF newState = "ENABLED" THEN relock(m, "ENABLED") ELSE m
         IN  idleCoils(m1, newState)

\* setState with a break closing the FORCED_ENABLED case only
setState_breakAfterForced(m, newState, clearErrors) ==
    IF m.state = newState THEN m
    ELSE IF clearErrors
    THEN LET m1 == IF newState = "ENABLED" THEN relock(m, "ENABLED") ELSE m
         IN  IF newState \in {"ENABLED", "FORCED_ENABLED"}
             THEN relock(m1, "FORCED_ENABLED")
             ELSE idleCoils(m1, newState)
    ELSE IF m.state \in {"ENABLED", "DISABLED"}
    THEN LET m1 == IF newState = "ENABLED" THEN relock(m, "ENABLED") ELSE m
         IN  idleCoils(m1, newState)
    ELSE m

\* setState without the test that the state is a new one
setState_noSameStateTest(m, newState, clearErrors) ==
    IF clearErrors
    THEN LET m1 == IF newState = "ENABLED" THEN relock(m, "ENABLED") ELSE m
             m2 == IF newState \in {"ENABLED", "FORCED_ENABLED"}
                   THEN relock(m1, "FORCED_ENABLED")
                   ELSE m1
         IN  idleCoils(m2, newState)
    ELSE IF m.state \in {"ENABLED", "DISABLED"}
    THEN LET m1 == IF newState = "ENABLED" THEN relock(m, "ENABLED") ELSE m
         IN  idleCoils(m1, newState)
    ELSE m

\* setState with the default label's coil writes ahead of the ENABLED case
setState_idleFirst(m, newState, clearErrors) ==
    IF m.state = newState THEN m
    ELSE IF clearErrors
    THEN LET m1 == IF newState = "ENABLED" THEN relock(m, "ENABLED") ELSE m
             m2 == IF newState \in {"ENABLED", "FORCED_ENABLED"}
                   THEN relock(m1, "FORCED_ENABLED")
                   ELSE m1
         IN  idleCoils(m2, newState)
    ELSE IF m.state \in {"ENABLED", "DISABLED"}
    THEN LET m1 == idleCoils(m, newState)
         IN  IF newState = "ENABLED" THEN relock(m1, "ENABLED") ELSE m1
    ELSE m

\* setState with a break closing every case
setState_withBreaks(m, newState, clearErrors) ==
    IF m.state = newState THEN m
    ELSE IF clearErrors
    THEN IF newState = "ENABLED" THEN relock(m, "ENABLED")
         ELSE IF newState = "FORCED_ENABLED" THEN relock(m, "FORCED_ENABLED")
         ELSE idleCoils(m, newState)
    ELSE IF m.state \in {"ENABLED", "DISABLED"}
    THEN IF newState = "ENABLED" THEN relock(m, "ENABLED")
         ELSE idleCoils(m, newState)
    ELSE m

setState(m, newState, clearErrors) ==
    IF m.state = newState THEN m
    ELSE IF clearErrors
    THEN LET m1 == IF newState = "ENABLED" THEN relock(m, "ENABLED") ELSE m
             m2 == IF newState \in {"ENABLED", "FORCED_ENABLED"}
                   THEN relock(m1, "FORCED_ENABLED")
                   ELSE m1
         IN  idleCoils(m2, newState)
    ELSE IF m.state \in {"ENABLED", "DISABLED"}
    THEN LET m1 == IF newState = "ENABLED" THEN relock(m, "ENABLED") ELSE m
         IN  idleCoils(m1, newState)
    ELSE m

\* motor.cpp:557-559
getState(m) == m.state

\* ------------------------------------------------------------ configuration
\* The float +infinity, above every angle
FloatInf == 1024 * 1024 * 1024

\* The float division of motor.cpp:148 and 167, in angle units.  A divisor
\* of 0 gives +infinity; a divisor that does not divide the angle loses the
\* fraction of a unit here, which no formula below depends on.
MicrostepAngleOf(angle, divisor) ==
    IF divisor = 0 THEN FloatInf ELSE angle \div divisor

\* motor.cpp:139-150.  The argument is a uint16_t: the comparison with -1
\* is made on ints and never fails.
setMicrostepping(m, setMicrostepping_) ==
    IF ToUint16(setMicrostepping_) # -1
    THEN LET m1 == [m EXCEPT !.microstepDivisor = ToUint16(setMicrostepping_)]
         IN  [m1 EXCEPT !.microstepAngle =
                            MicrostepAngleOf(m1.fullStepAngle, m1.microstepDivisor)]
    ELSE m

\* setFullStepAngle without the update of the microstep angle
setFullStepAngle_staleMicrostep(m, newStepAngle) ==
    IF newStepAngle # -Deg
          /\ (newStepAngle = (18 * Deg) \div 10 \/ newStepAngle = (9 * Deg) \div 10)
    THEN [m EXCEPT !.fullStepAngle = newStepAngle]
    ELSE m

\* setFullStepAngle without the test for the two common step angles
setFullStepAngle_anyAngle(m, newStepAngle) ==
    IF newStepAngle # -Deg
    THEN LET m1 == [m EXCEPT !.fullStepAngle = newStepAngle]
         IN  [m1 EXCEPT !.microstepAngle =
                            MicrostepAngleOf(m1.fullStepAngle, m1.microstepDivisor)]
    ELSE m

\* motor.cpp:154-170
setFullStepAngle(m, newStepAngle) ==
    IF newStepAngle # -Deg
          /\ (newStepAngle = (18 * Deg) \div 10 \/ newStepAngle = (9 * Deg) \div 10)
    THEN LET m1 == [m EXCEPT !.fullStepAngle = newStepAngle]
         IN  [m1 EXCEPT !.microstepAngle =
                            MicrostepAngleOf(m1.fullStepAngle, m1.microstepDivisor)]
    ELSE m

\* ------------------------------------------------------- current limits
\* config.h is not part of the sources: the board ratings in mA, the RMS
\* rating being (uint16_t)(3500 * 0.707)
MAX_PEAK_BOARD_CURRENT == 3500
MAX_RMS_BOARD_CURRENT == 2474

\* The integer part of current * factor, the factor (1.414 or 0.707) given
\* in thousandths; it agrees with the double product for every uint16_t.
Scaled(current, thousandths) == (current * thousandths) \div 1000

\* The cast (uint16_t) of a double.  It is undefined for a value above
\* 65535: a build either keeps the low 16 bits or saturates.
CastOutcomes == {"wrap", "saturate"}

Uint16OfDouble(x, outcome) ==
    IF x <= 65535 THEN x
    ELSE IF outcome = "wrap" THEN x % 65536
    ELSE 65535

\* motor.cpp:103-114.  The argument is a uint16_t: the comparison with -1
\* is made on ints and never fails.
setRMSCurrent(m, rmsCurrent_, outcome) ==
    IF ToUint16(rmsCurrent_) # -1
    THEN [m EXCEPT !.rmsCurrent = constrain(ToUint16(rmsCurrent_), 0,
                                            MAX_RMS_BOARD_CURRENT),
                   !.peakCurrent =
                       constrain(Uint16OfDouble(Scaled(ToUint16(rmsCurrent_), 1414),
                                                outcome),
                                 0, MAX_PEAK_BOARD_CURRENT)]
    ELSE m

\* motor.cpp:118-129
setPeakCurrent(m, peakCurrent_, outcome) ==
    IF ToUint16(peakCurrent_) # -1
    THEN [m EXCEPT !.peakCurrent = constrain(ToUint16(peakCurrent_), 0,
                                             MAX_PEAK_BOARD_CURRENT),
                   !.rmsCurrent =
                       constrain(Uint16OfDouble(Scaled(ToUint16(peakCurrent_), 707),
                                                outcome),
                                 0, MAX_RMS_BOARD_CURRENT)]
    ELSE m

\* motor.cpp:185-192
setReversed(m, reversed_) ==
    IF reversed_ THEN [m EXCEPT !.reversed = -1] ELSE [m EXCEPT !.reversed = 1]

\* motor.cpp:196-198
getReversed(m) == m.reversed > 0

\* motor.cpp:62-86 (ENABLE_DYNAMIC_CURRENT): a uint16_t is never negative
setDynamicAccelCurrent(m, newAccelFactor) ==
    IF ToUint16(newAccelFactor) >= 0
    THEN [m EXCEPT !.dynamicAccelCurrent = ToUint16(newAccelFactor)]
    ELSE m

setDynamicIdleCurrent(m, newIdleFactor) ==
    IF ToUint16(newIdleFactor) >= 0
    THEN [m EXCEPT !.dynamicIdleCurrent = ToUint16(newIdleFactor)]
    ELSE m

setDynamicMaxCurrent(m, newMaxCurrent) ==
    IF ToUint16(newMaxCurrent) >= 0
    THEN [m EXCEPT !.dynamicMaxCurrent = ToUint16(newMaxCurrent)]
    ELSE m

\* motor.cpp:218-224, the multiplier in quarters
setMicrostepMultiplier(m, newMultiplier) ==
    IF newMultiplier # -MultOne
    THEN [m EXCEPT !.microstepMultiplier = newMultiplier]
    ELSE m

\* ------------------------------------------- the setters, by statement
\* motor.cpp:145
storeMicrostepDivisor(m, setMicrostepping_) ==
    [m EXCEPT !.microstepDivisor = ToUint16(setMicrostepping_)]

\* motor.cpp:164
storeFullStepAngle(m, newStepAngle) == [m EXCEPT !.fullStepAngle = newStepAngle]

\* motor.cpp:148 and 167
fixMicrostepAngle(m) ==
    [m EXCEPT !.microstepAngle = MicrostepAngleOf(m.fullStepAngle, m.microstepDivisor)]

\* motor.cpp:109
storeRMSCurrent(m, rmsCurrent_) ==
    [m EXCEPT !.rmsCurrent = constrain(ToUint16(rmsCurrent_), 0, MAX_RMS_BOARD_CURRENT)]

\* motor.cpp:112
derivePeakCurrent(m, rmsCurrent_, outcome) ==
    [m EXCEPT !.peakCurrent =
                  constrain(Uint16OfDouble(Scaled(ToUint16(rmsCurrent_), 1414), outcome),
                            0, MAX_PEAK_BOARD_CURRENT)]

\* motor.cpp:124
storePeakCurrent(m, peakCurrent_) ==
    [m EXCEPT !.peakCurrent = constrain(ToUint16(peakCurrent_), 0, MAX_PEAK_BOARD_CURRENT)]

\* motor.cpp:127
deriveRMSCurrent(m, peakCurrent_, outcome) ==
    [m EXCEPT !.rmsCurrent =
                  constrain(Uint16OfDouble(Scaled(ToUint16(peakCurrent_), 707), outcome),
                            0, MAX_RMS_BOARD_CURRENT)]

\* ------------------------------------------------------------ PID wrapper
\* The gains and output limits of config.h
DEFAULT_P == 3
DEFAULT_I == 2
DEFAULT_D == 1
DEFAULT_PID_STEP_MAX == 4
DEFAULT_PID_STEP_MIN == -DEFAULT_PID_STEP_MAX

\* The PID algorithm behind the wrapper (spec 4.5): a controller with three
\* gains, an integral sum and output limits that it enforces on the sum and
\* on the output.  Gains and angles are whole numbers here and the sample
\* time is one tick.
PID_new(Kp, Ki, Kd) ==
    [ kp |-> Kp, ki |-> Ki, kd |-> Kd, outMin |-> 0, outMax |-> 255,
      outputSum |-> 0, lastInput |-> 0, inAuto |-> FALSE ]

\* The controller and the output variable it points to, after a call
Ctl(c, out) == [pid |-> c, output |-> out]

PID_SetMode(c, input, out, automatic) ==
    IF automatic /\ ~c.inAuto
    THEN Ctl([c EXCEPT !.inAuto = TRUE, !.lastInput = input,
                       !.outputSum = constrain(out, c.outMin, c.outMax)], out)
    ELSE Ctl([c EXCEPT !.inAuto = automatic], out)

PID_SetOutputLimits(c, out, Min, Max) ==
    IF Min >= Max
    THEN Ctl(c, out)
    ELSE IF c.inAuto
         THEN Ctl([c EXCEPT !.outMin = Min, !.outMax = Max,
                            !.outputSum = constrain(@, Min, Max)],
                  constrain(out, Min, Max))
         ELSE Ctl([c EXCEPT !.outMin = Min, !.outMax = Max], out)

PID_SetTunings(c, Kp, Ki, Kd) == [c EXCEPT !.kp = Kp, !.ki = Ki, !.kd = Kd]

\* due: the sample time has passed since the last computation
PID_Compute(c, input, setpoint, out, due) ==
    IF ~c.inAuto \/ ~due
    THEN Ctl(c, out)
    ELSE LET error == setpoint - input
             dInput == input - c.lastInput
             sum == constrain(c.outputSum + (c.ki * error), c.outMin, c.outMax)
         IN  Ctl([c EXCEPT !.outputSum = sum, !.lastInput = input],
                 constrain(((c.kp * error) + sum) - (c.kd * dInput),
                           c.outMin, c.outMax))

\* The members of StepperPID as declared (pid.h)
PIDMembers ==
    [ P |-> DEFAULT_P, I |-> DEFAULT_I, D |-> DEFAULT_D,
      input |-> 0, output |-> 0, setpoint |-> 0 ]

\* pid.cpp:8-18
StepperPID ==
    LET created == PID_new(DEFAULT_P, DEFAULT_I, DEFAULT_D)
        auto == PID_SetMode(created, PIDMembers.input, PIDMembers.output, TRUE)
        limited == PID_SetOutputLimits(auto.pid, auto.output,
                                       DEFAULT_PID_STEP_MIN, DEFAULT_PID_STEP_MAX)
    IN  [ P |-> PIDMembers.P, I |-> PIDMembers.I, D |-> PIDMembers.D,
          input |-> PIDMembers.input, output |-> limited.output,
          setpoint |-> PIDMembers.setpoint, pid |-> limited.pid ]

\* pid.cpp:22-36
getP(p) == p.pid.kp

getI(p) == p.pid.ki

getD(p) == p.pid.kd

\* pid.cpp:73-75
updateTunings(p) == [p EXCEPT !.pid = PID_SetTunings(@, p.P, p.I, p.D)]

\* setP that hands only its own gain to the controller
setP_aloneInTriple(p, newP) ==
    [p EXCEPT !.P = newP, !.pid = PID_SetTunings(@, newP, 0, 0)]

\* pid.cpp:40-47
setP(p, newP) == updateTunings([p EXCEPT !.P = newP])

\* pid.cpp:51-58
setI(p, newI) == updateTunings([p EXCEPT !.I = newI])

\* pid.cpp:62-69
setD(p, newD) == updateTunings([p EXCEPT !.D = newD])

\* pid.cpp:91-93
setOutputLimits(p, min, max) ==
    LET r == PID_SetOutputLimits(p.pid, p.output, min, max)
    IN  [p EXCEPT !.pid = r.pid, !.output = r.output]

\* The absolute angle of the encoder
getAbsoluteAngle(m) == m.encoderAngle

\* motor.cpp:39-41
getAngleError(m) == getAbsoluteAngle(m) - m.desiredAngle

\* What a call of compute() leaves and what it returns
Computed(p, value) == [pid |-> p, ret |-> value]

\* compute that returns the sampled error
compute_returnsInput(p, m, due) ==
    LET p1 == [p EXCEPT !.input = getAngleError(m)]
        r == PID_Compute(p1.pid, p1.input, p1.setpoint, p1.output, due)
    IN  Computed([p1 EXCEPT !.pid = r.pid, !.output = r.output], p1.input)

\* pid.cpp:97-107
compute(p, m, due) ==
    LET p1 == [p EXCEPT !.input = getAngleError(m)]
        r == PID_Compute(p1.pid, p1.input, p1.setpoint, p1.output, due)
        p2 == [p1 EXCEPT !.pid = r.pid, !.output = r.output]
    IN  Computed(p2, p2.output)

\* ------------------------------------------------------------ construction
\* The member initialisers of motor.h:269, 289, 304-305 and the pins after
\* pinMode and analogSetup(.., 0), for a given configuration.
Members(cfg) ==
    [ state |-> "MOTOR_NOT_SET", currentAngle |-> 0, desiredAngle |-> 0,
      currentStep |-> 0,
      previousCoilStateA |-> "COIL_NOT_SET", previousCoilStateB |-> "COIL_NOT_SET",
      coilADir |-> << "LOW", "LOW" >>, coilBDir |-> << "LOW", "LOW" >>,
      pwmDutyA |-> 0, pwmDutyB |-> 0,
      fullStepAngle |-> cfg.fullStepAngle, microstepDivisor |-> cfg.microstepDivisor,
      microstepAngle |-> cfg.fullStepAngle \div cfg.microstepDivisor,
      reversed |-> cfg.reversed,
      microstepMultiplier |-> cfg.microstepMultiplier, peakCurrent |-> cfg.peakCurrent,
      rmsCurrent |-> cfg.rmsCurrent, dynamicAccelCurrent |-> cfg.dynamicAccelCurrent,
      dynamicIdleCurrent |-> cfg.dynamicIdleCurrent,
      dynamicMaxCurrent |-> cfg.dynamicMaxCurrent,
      startupAngleOffset |-> cfg.startupAngleOffset,
      trace |-> << >>, encoderAngle |-> 0, directionPin |-> "LOW" ]

\* The constructor with clearErrors left at its default, false
StepperMotor_keepErrors(cfg) == setState(Members(cfg), "DISABLED", FALSE)

\* motor.cpp:11-29
StepperMotor(cfg) == setState(Members(cfg), "DISABLED", TRUE)

\* --------------------------------------------------------------- inputs
FullStepAngles == { (18 * Deg) \div 10, (9 * Deg) \div 10 }

Microsteppings == {1, 2, 4, 8, 16, 32}

\* Shaft angles the sensor reports, and startup offsets
EncoderAngles == { 45 * Deg, 100 * Deg }

\* Currents handed to setCoilA and setCoilB (mA)
Currents == { 0, 500, 2000 }

\* Angles handed to setFullStepAngle: 1.8, 0.9, the sentinel -1, 1.0, 3.6
StepAngleInputs == FullStepAngles \cup { -Deg, Deg, (36 * Deg) \div 10 }

PinLevels == {"HIGH", "LOW"}

\* The configurations the motor is constructed with
Configurations ==
    { [ fullStepAngle |-> (18 * Deg) \div 10, microstepDivisor |-> 16,
        reversed |-> 1, microstepMultiplier |-> MultOne,
        peakCurrent |-> 1000, rmsCurrent |-> 707, dynamicAccelCurrent |-> 10,
        dynamicIdleCurrent |-> 500, dynamicMaxCurrent |-> 750,
        startupAngleOffset |-> 0 ],
      [ fullStepAngle |-> (18 * Deg) \div 10, microstepDivisor |-> 16,
        reversed |-> -1, microstepMultiplier |-> MultOne,
        peakCurrent |-> 1000, rmsCurrent |-> 707, dynamicAccelCurrent |-> 10,
        dynamicIdleCurrent |-> 500, dynamicMaxCurrent |-> 750,
        startupAngleOffset |-> 60 * Deg ] }

\* ---------------------------------------------------------------- actions
Commit(m) ==
    /\ state' = m.state
    /\ currentAngle' = m.currentAngle
    /\ desiredAngle' = m.desiredAngle
    /\ currentStep' = m.currentStep
    /\ previousCoilStateA' = m.previousCoilStateA
    /\ previousCoilStateB' = m.previousCoilStateB
    /\ coilADir' = m.coilADir
    /\ coilBDir' = m.coilBDir
    /\ pwmDutyA' = m.pwmDutyA
    /\ pwmDutyB' = m.pwmDutyB
    /\ fullStepAngle' = m.fullStepAngle
    /\ microstepDivisor' = m.microstepDivisor
    /\ microstepAngle' = m.microstepAngle
    /\ reversed' = m.reversed
    /\ microstepMultiplier' = m.microstepMultiplier
    /\ peakCurrent' = m.peakCurrent
    /\ rmsCurrent' = m.rmsCurrent
    /\ dynamicAccelCurrent' = m.dynamicAccelCurrent
    /\ dynamicIdleCurrent' = m.dynamicIdleCurrent
    /\ dynamicMaxCurrent' = m.dynamicMaxCurrent
    /\ startupAngleOffset' = m.startupAngleOffset
    /\ trace' = m.trace

Op(name, arg, flag1, flag2, num) ==
    [op |-> name, arg |-> arg, flag1 |-> flag1, flag2 |-> flag2, num |-> num]

\* The variables hold the motor m (used for the initial state).
Holds(m) ==
    /\ state = m.state
    /\ currentAngle = m.currentAngle
    /\ desiredAngle = m.desiredAngle
    /\ currentStep = m.currentStep
    /\ previousCoilStateA = m.previousCoilStateA
    /\ previousCoilStateB = m.previousCoilStateB
    /\ coilADir = m.coilADir
    /\ coilBDir = m.coilBDir
    /\ pwmDutyA = m.pwmDutyA
    /\ pwmDutyB = m.pwmDutyB
    /\ fullStepAngle = m.fullStepAngle
    /\ microstepDivisor = m.microstepDivisor
    /\ microstepAngle = m.microstepAngle
    /\ reversed = m.reversed
    /\ microstepMultiplier = m.microstepMultiplier
    /\ peakCurrent = m.peakCurrent
    /\ rmsCurrent = m.rmsCurrent
    /\ dynamicAccelCurrent = m.dynamicAccelCurrent
    /\ dynamicIdleCurrent = m.dynamicIdleCurrent
    /\ dynamicMaxCurrent = m.dynamicMaxCurrent
    /\ startupAngleOffset = m.startupAngleOffset
    /\ trace = m.trace

\* The main loop is between calls, or inside a setter call with the argument
\* arg, about to execute the statement of the line named
At(line, arg) == [at |-> line, arg |-> arg]

Idle == At("idle", 0)

\* A call: the motor after it, the call and the motor before it.
Call(m, op) ==
    /\ Commit(m)
    /\ lastOp' = op
    /\ pre' = state
    /\ pid' = pid
    /\ pc' = pc

\* A call of the PID wrapper: the motor is read, not written.
PidCall(p, op) ==
    /\ pid' = p
    /\ lastOp' = op
    /\ pre' = state
    /\ trace' = << >>
    /\ pc' = pc
    /\ UNCHANGED << state, currentAngle, desiredAngle, currentStep,
                    previousCoilStateA, previousCoilStateB, coilADir, coilBDir,
                    pwmDutyA, pwmDutyB, fullStepAngle, microstepDivisor,
                    microstepAngle, reversed, microstepMultiplier, peakCurrent,
                    rmsCurrent, dynamicAccelCurrent, dynamicIdleCurrent,
                    dynamicMaxCurrent, startupAngleOffset, stepCalls >>

Init ==
    \E cfg \in Configurations : \E m \in { StepperMotor(cfg) } :
        /\ Holds(m)
        /\ lastOp = Op("StepperMotor", "", FALSE, FALSE, 0)
        /\ pre = Members(cfg).state
        /\ stepCalls = 0
        /\ pid = StepperPID
        /\ pc = Idle

\* The sensor is read only on the way to an enabled state (motor.cpp:504,
\* 514, 538): for the other targets one reading stands for all.
SensorReads(newState) ==
    IF newState \in {"ENABLED", "FORCED_ENABLED"} THEN EncoderAngles ELSE {0}

\* The direction pin is read only by step(PIN, ..) and simpleStep().
PinReads(dir) == IF dir = "PIN" THEN PinLevels ELSE {"LOW"}

\* motor.setState(newState, clearErrors): the parser (M17, M18, M84), the
\* enable pin handler
SetState ==
    \E newState \in MOTOR_STATE, clearErrors \in BOOLEAN :
      \E angle \in SensorReads(newState) :
        \E m \in { setState(Begin(angle, "LOW"), newState, clearErrors) } :
            /\ Call(m, Op("setState", newState, clearErrors, FALSE, 0))
            /\ UNCHANGED stepCalls

\* motor.step(dir, useMultiplier, updateDesiredAngle): the step interrupt
\* and the correction timer
Step ==
    /\ stepCalls < MaxSteps
    /\ \E dir \in STEP_DIR, useMultiplier \in BOOLEAN, updateDesiredAngle \in BOOLEAN :
         \E level \in PinReads(dir) :
           \E m \in { step(Begin(0, level), dir, useMultiplier, updateDesiredAngle) } :
               /\ stepCalls' = stepCalls + 1
               /\ Call(m, Op("step", dir, useMultiplier, updateDesiredAngle, 0))

\* motor.simpleStep()
SimpleStep ==
    /\ stepCalls < MaxSteps
    /\ \E level \in PinLevels :
         \E m \in { simpleStep(Begin(0, level)) } :
             /\ stepCalls' = stepCalls + 1
             /\ Call(m, Op("simpleStep", "", FALSE, FALSE, 0))

Next ==
    \/ SetState
    \/ Step
    \/ SimpleStep

Spec == Init /\ [][Next]_vars

\* ------------------------------------------ the coil driver, called directly
SetCoilA ==
    \E desiredState \in COIL_STATE, current \in Currents :
        \E m \in { setCoilA(Begin(0, "LOW"), desiredState, current) } :
            /\ Call(m, Op("setCoilA", desiredState, FALSE, FALSE, current))
            /\ UNCHANGED stepCalls

SetCoilB ==
    \E desiredState \in COIL_STATE, current \in Currents :
        \E m \in { setCoilB(Begin(0, "LOW"), desiredState, current) } :
            /\ Call(m, Op("setCoilB", desiredState, FALSE, FALSE, current))
            /\ UNCHANGED stepCalls

NextCoil ==
    \/ SetCoilA
    \/ SetCoilB

SpecCoil == Init /\ [][NextCoil]_vars

\* Currents over the whole range of the uint16_t argument: the ends, the
\* first values, the values around the current that saturates the duty
\* cycle (1650 mA) and around the sign bit
PwmCurrents ==
    { 0, 1, 2, 3, 500, 1649, 1650, 1651, 2000, 3500, 32767, 32768, 65534, 65535 }

\* setCoilA and setCoilB with a coil kept in one direction: the call sets the
\* duty and nothing else
PowerCoilA ==
    \E desiredState \in {"FORWARD", "BACKWARD"}, current \in PwmCurrents :
        \E m \in { setCoilA(Begin(0, "LOW"), desiredState, current) } :
            /\ Call(m, Op("setCoilA", desiredState, FALSE, FALSE, current))
            /\ UNCHANGED stepCalls

PowerCoilB ==
    \E desiredState \in {"FORWARD", "BACKWARD"}, current \in PwmCurrents :
        \E m \in { setCoilB(Begin(0, "LOW"), desiredState, current) } :
            /\ Call(m, Op("setCoilB", desiredState, FALSE, FALSE, current))
            /\ UNCHANGED stepCalls

NextPWM ==
    \/ PowerCoilA
    \/ PowerCoilB

SpecPWM == Init /\ [][NextPWM]_vars

\* ------------------------------------------------ the configuration setters
\* M350 with a divisor of the valid set
SetMicrostepping ==
    \E d \in Microsteppings :
        \E m \in { setMicrostepping(Begin(0, "LOW"), d) } :
            /\ Call(m, Op("setMicrostepping", "", FALSE, FALSE, d))
            /\ UNCHANGED stepCalls

\* M93
SetFullStepAngle ==
    \E a \in StepAngleInputs :
        \E m \in { setFullStepAngle(Begin(0, "LOW"), a) } :
            /\ Call(m, Op("setFullStepAngle", "", FALSE, FALSE, a))
            /\ UNCHANGED stepCalls

NextConfig ==
    \/ SetMicrostepping
    \/ SetFullStepAngle

SpecConfig == Init /\ [][NextConfig]_vars

\* ------------------------------------ steps in every valid configuration
\* Microstep multipliers (quarters): 1.0, 1.5 and 2.0
StepMultipliers == { MultOne, 6, 2 * MultOne }

\* The motor constructed with each full step angle, each divisor of the
\* valid set, each direction and each multiplier
ValidConfigurations ==
    { [ fullStepAngle |-> a, microstepDivisor |-> d,
        reversed |-> r, microstepMultiplier |-> mu,
        peakCurrent |-> 1000, rmsCurrent |-> 707, dynamicAccelCurrent |-> 10,
        dynamicIdleCurrent |-> 500, dynamicMaxCurrent |-> 750,
        startupAngleOffset |-> 0 ] :
      a \in FullStepAngles, d \in Microsteppings, r \in {1, -1},
      mu \in StepMultipliers }

InitStepping ==
    \E cfg \in ValidConfigurations : \E m \in { StepperMotor(cfg) } :
        /\ Holds(m)
        /\ lastOp = Op("StepperMotor", "", FALSE, FALSE, 0)
        /\ pre = Members(cfg).state
        /\ stepCalls = 0
        /\ pid = StepperPID
        /\ pc = Idle

NextStepping == Step

SpecStepping == InitStepping /\ [][NextStepping]_vars

\* simpleStep() in every valid configuration
NextSimpleStep == SimpleStep

SpecSimpleStep == InitStepping /\ [][NextSimpleStep]_vars

\* ------------------------------------- the drive routines, called directly
StepCounts == (-MaxCount) .. MaxCount

Periods == (-MaxPeriods) .. MaxPeriods

\* Angles handed to driveCoilsAngle: negative, zero, 360, multiples and half
\* multiples of 360, and half a microstep (0.05625 degree) past 10 degrees
AngleInputs ==
    { -720 * Deg, -540 * Deg, -370 * Deg, -360 * Deg, -180 * Deg, -10 * Deg,
      0, 10 * Deg, (10 * Deg) + 72, 180 * Deg, 350 * Deg, 360 * Deg, 370 * Deg,
      540 * Deg, 720 * Deg, 1000 * Deg }

DriveCoils ==
    \E steps \in StepCounts :
        \E m \in { driveCoils(Begin(0, "LOW"), steps) } :
            /\ Call(m, Op("driveCoils", "", FALSE, FALSE, steps))
            /\ UNCHANGED stepCalls

DriveCoilsAngle ==
    \E degAngle \in AngleInputs :
        \E m \in { driveCoilsAngle(Begin(0, "LOW"), degAngle) } :
            /\ Call(m, Op("driveCoilsAngle", "", FALSE, FALSE, degAngle))
            /\ UNCHANGED stepCalls

NextDrive ==
    \/ DriveCoils
    \/ DriveCoilsAngle
    \/ SetMicrostepping
    \/ SetFullStepAngle

SpecDrive == Init /\ [][NextDrive]_vars

\* ------------------------------------------------- the parameter commands
\* What parseValue(buffer, 'V') converts to: -1 stands for a command without
\* the letter (parser.cpp:582).
\* M350: 0, 3, 64 and -5 are outside the valid set
DivisorInputs == { -1, 0, 3, 16, 32, 64, -5 }

\* M355, in quarters: absent, 0, -2.0, -0.5, 1.0, 1.5, 2.0
MultiplierInputs == { -MultOne, 0, -2 * MultOne, -2, MultOne, 6, 2 * MultOne }

\* parser.cpp:60-73
M93 ==
    \E v \in StepAngleInputs :
        \E m \in { IF v # -Deg THEN setFullStepAngle(Begin(0, "LOW"), v)
                                ELSE Begin(0, "LOW") } :
            /\ Call(m, Op("M93", "", FALSE, FALSE, v))
            /\ UNCHANGED stepCalls

\* parser.cpp:156-170: the value is an int16_t, the setter takes a uint16_t
M350 ==
    \E v \in DivisorInputs :
        \E m \in { IF ToInt16(v) # -1
                   THEN setMicrostepping(Begin(0, "LOW"), ToUint16(ToInt16(v)))
                   ELSE Begin(0, "LOW") } :
            /\ Call(m, Op("M350", "", FALSE, FALSE, v))
            /\ UNCHANGED stepCalls

\* parser.cpp:217-230
M355 ==
    \E v \in MultiplierInputs :
        \E m \in { IF v # -MultOne THEN setMicrostepMultiplier(Begin(0, "LOW"), v)
                                    ELSE Begin(0, "LOW") } :
            /\ Call(m, Op("M355", "", FALSE, FALSE, v))
            /\ UNCHANGED stepCalls

\* ---------------------------------------------- M907, static current build
\* Currents in mA handed to the setters as uint16_t: small values, the board
\* ratings and their neighbours, values whose product with 1.414 passes
\* 65535, and the sentinel (uint16_t)-1
CurrentInputs == { 0, 1, 2, 4, 750, 2474, 2475, 3500, 3501, 46349, 65531, 65535 }

\* What parseValue(buffer, 'R') and parseValue(buffer, 'P') convert to: -1
\* stands for a command without the letter
M907Inputs == { -1, -5, 0, 2, 750, 3000 }

SetRMSCurrent ==
    \E x \in CurrentInputs, outcome \in CastOutcomes :
        \E m \in { setRMSCurrent(Begin(0, "LOW"), x, outcome) } :
            /\ Call(m, Op("setRMSCurrent", "", FALSE, FALSE, x))
            /\ UNCHANGED stepCalls

SetPeakCurrent ==
    \E y \in CurrentInputs, outcome \in CastOutcomes :
        \E m \in { setPeakCurrent(Begin(0, "LOW"), y, outcome) } :
            /\ Call(m, Op("setPeakCurrent", "", FALSE, FALSE, y))
            /\ UNCHANGED stepCalls

\* parser.cpp:370-388: the values are int16_t, the setters take uint16_t
M907 ==
    \E r \in M907Inputs, p \in M907Inputs, outcome \in CastOutcomes :
        \E m \in { IF ToInt16(r) # -1
                   THEN setRMSCurrent(Begin(0, "LOW"), ToUint16(ToInt16(r)), outcome)
                   ELSE IF ToInt16(p) # -1
                   THEN setPeakCurrent(Begin(0, "LOW"), ToUint16(ToInt16(p)), outcome)
                   ELSE Begin(0, "LOW") } :
            /\ Call(m, Op("M907", [R |-> r, P |-> p], FALSE, FALSE, 0))
            /\ UNCHANGED stepCalls

NextCurrent ==
    \/ SetRMSCurrent
    \/ SetPeakCurrent
    \/ M907

SpecCurrent == Init /\ [][NextCurrent]_vars

\* --------------------------------------------- M907, dynamic current build
\* parser.cpp:349: the command number, which is also what
\* parseValue(buffer, 'M') finds first in the buffer of an M907 command
M907_COMMAND == 907

\* What follows the letters A and I (and a later M) in the command: -1
\* stands for a command without the letter
FactorInputs == { -1, -5, 0, 5, 300, 1000 }

\* parser.cpp:351-368: the values are int16_t, the setters take uint16_t.
\* The switch of line 43 is on parseValue(buffer, 'M'), so maxCurrent is the
\* command number whatever max factor the command gives.
M907Dynamic ==
    \E a \in FactorInputs, i \in FactorInputs, mx \in {-1, 300} :
      \E accelCurrent \in { ToInt16(a) }, idleCurrent \in { ToInt16(i) },
         maxCurrent \in { ToInt16(M907_COMMAND) } :
        \E m \in { IF ~(accelCurrent = -1 /\ idleCurrent = -1 /\ maxCurrent = -1)
                   THEN setDynamicMaxCurrent(
                            setDynamicIdleCurrent(
                                setDynamicAccelCurrent(Begin(0, "LOW"), accelCurrent),
                                idleCurrent),
                            maxCurrent)
                   ELSE Begin(0, "LOW") } :
            /\ Call(m, Op("M907Dynamic", [A |-> a, I |-> i, M |-> mx], FALSE, FALSE, 0))
            /\ UNCHANGED stepCalls

\* driveCoils with every peak current the two setters leave
\* Currents that leave no, a small, a mid-range and the largest peak current,
\* the last also through the constrain and through the out-of-range cast
DriveCurrents == { 0, 1, 750, 2475, 3501, 65535 }

SetRMSCurrentToDrive ==
    \E x \in DriveCurrents, outcome \in CastOutcomes :
        \E m \in { setRMSCurrent(Begin(0, "LOW"), x, outcome) } :
            /\ Call(m, Op("setRMSCurrent", "", FALSE, FALSE, x))
            /\ UNCHANGED stepCalls

SetPeakCurrentToDrive ==
    \E y \in DriveCurrents, outcome \in CastOutcomes :
        \E m \in { setPeakCurrent(Begin(0, "LOW"), y, outcome) } :
            /\ Call(m, Op("setPeakCurrent", "", FALSE, FALSE, y))
            /\ UNCHANGED stepCalls

NextPower ==
    \/ SetRMSCurrentToDrive
    \/ SetPeakCurrentToDrive
    \/ DriveCoils

SpecPower == Init /\ [][NextPower]_vars

NextDynamic == M907Dynamic

SpecDynamic == Init /\ [][NextDynamic]_vars

\* What follows the letter S of an M352 command: -1 stands for a command
\* without the letter
ReversedInputs == { -1, 0, 1, 2 }

\* parser.cpp:172-185: M352 S0 and M352 S1 set the flag, every other command
\* replies with getReversed() (flag1 of the call is that reply)
M352 ==
    \E s \in ReversedInputs :
      \E setValue \in { ToInt16(s) } :
        \E m \in { IF setValue = 0 \/ setValue = 1
                   THEN setReversed(Begin(0, "LOW"), setValue = 1)
                   ELSE Begin(0, "LOW") } :
            /\ Call(m, Op("M352", "", getReversed(m), FALSE, s))
            /\ UNCHANGED stepCalls

\* ----------------------------------------------------- the PID wrapper
\* Angles the encoder reports to compute(): within a few units of zero and
\* one microstep of 1.8/16 degree away
PidAngles == { -3, 2, 144 }

\* What follows the letters P, I and D of an M301 command: -1 stands for a
\* command without the letter
M301Inputs == { -1, 0, 2 }

\* Limits handed to setOutputLimits, min below max
LimitInputs == { << -2, 3 >>, << -DEFAULT_PID_STEP_MAX, DEFAULT_PID_STEP_MAX >> }

\* pid.compute(), once per control tick
Compute ==
    \E angle \in PidAngles, due \in BOOLEAN :
      \E r \in { compute(pid, Begin(angle, "LOW"), due) } :
          PidCall(r.pid, Op("compute", [angle |-> angle, ret |-> r.ret], due, FALSE, 0))

SetOutputLimits ==
    \E l \in LimitInputs :
        PidCall(setOutputLimits(pid, l[1], l[2]),
                Op("setOutputLimits", [min |-> l[1], max |-> l[2]], FALSE, FALSE, 0))

\* parser.cpp:119-147, without the W value (setMaxI is not part of pid.cpp)
M301 ==
    \E pValue \in M301Inputs, iValue \in M301Inputs, dValue \in M301Inputs :
      \E p \in { IF ~(pValue = -1 /\ iValue = -1 /\ dValue = -1)
                 THEN LET p1 == IF pValue # -1 THEN setP(pid, pValue) ELSE pid
                          p2 == IF iValue # -1 THEN setI(p1, iValue) ELSE p1
                      IN  IF dValue # -1 THEN setD(p2, dValue) ELSE p2
                 ELSE pid } :
          PidCall(p, Op("M301", [P |-> pValue, I |-> iValue, D |-> dValue],
                        FALSE, FALSE, 0))

NextPID ==
    \/ Compute
    \/ SetOutputLimits
    \/ M301

SpecPID == Init /\ [][NextPID]_vars

\* compute() between steps: the error of a motor whose desiredAngle has moved
NextError ==
    \/ Step
    \/ Compute

SpecError == Init /\ [][NextError]_vars

\* ------------------------------- setters preempted by the step interrupt
\* No statement of motor.cpp masks the interrupt: the timer interrupt can
\* run step() between any two statements of a setter the main loop is
\* executing.  Each setter below is two actions, its first assignment and
\* its second.
PreemptDivisors == { 32 }

PreemptCurrents == { 1500 }

\* The first assignment of a setter call whose tests pass (motor.cpp:145,
\* 164, 109, 124)
EnterSetter ==
    /\ pc = Idle
    /\ \/ \E v \in PreemptDivisors :
            /\ ToUint16(v) # -1
            /\ Commit(storeMicrostepDivisor(Begin(0, "LOW"), v))
            /\ pc' = At("motor.cpp:148", v)
            /\ lastOp' = Op("setMicrostepping", "", FALSE, FALSE, v)
       \/ \E a \in FullStepAngles :
            /\ a # -Deg
            /\ Commit(storeFullStepAngle(Begin(0, "LOW"), a))
            /\ pc' = At("motor.cpp:167", a)
            /\ lastOp' = Op("setFullStepAngle", "", FALSE, FALSE, a)
       \/ \E c \in PreemptCurrents :
            /\ ToUint16(c) # -1
            /\ Commit(storeRMSCurrent(Begin(0, "LOW"), c))
            /\ pc' = At("motor.cpp:112", c)
            /\ lastOp' = Op("setRMSCurrent", "", FALSE, FALSE, c)
       \/ \E c \in PreemptCurrents :
            /\ ToUint16(c) # -1
            /\ Commit(storePeakCurrent(Begin(0, "LOW"), c))
            /\ pc' = At("motor.cpp:127", c)
            /\ lastOp' = Op("setPeakCurrent", "", FALSE, FALSE, c)
    /\ pre' = state
    /\ UNCHANGED << pid, stepCalls >>

\* The second assignment of the call (motor.cpp:148, 167, 112, 127) and the
\* return to the main loop
LeaveSetter ==
    /\ pc # Idle
    /\ \E m \in { CASE pc.at \in {"motor.cpp:148", "motor.cpp:167"}
                        -> fixMicrostepAngle(Begin(0, "LOW"))
                    [] pc.at = "motor.cpp:112"
                        -> derivePeakCurrent(Begin(0, "LOW"), pc.arg, "saturate")
                    [] OTHER
                        -> deriveRMSCurrent(Begin(0, "LOW"), pc.arg, "saturate") } :
          Commit(m)
    /\ pc' = Idle
    /\ lastOp' = Op("return", "", FALSE, FALSE, pc.arg)
    /\ pre' = state
    /\ UNCHANGED << pid, stepCalls >>

NextPreempt ==
    \/ EnterSetter
    \/ LeaveSetter
    \/ Step

SpecPreempt == Init /\ [][NextPreempt]_vars

\* ------------------------------- setState observed by an interrupt
\* setState by the case labels of its switches: each action below runs the
\* statements of one label up to its assignment of state, and an interrupt
\* can call getState() between two of them.
\* The call in progress: its target, its clearErrors and the state it found
Pending(newState, clearErrors, old) ==
    [newState |-> newState, clearErrors |-> clearErrors, old |-> old]

\* The labels the main loop can be stopped at inside setState
InsideSetState == {"motor.cpp:511", "motor.cpp:521", "motor.cpp:545"}

\* The first label a call executes, when the tests of motor.cpp:494 and 529
\* pass (a call they stop is a single step that changes nothing)
EnterSetState ==
    /\ pc.at = "idle"
    /\ \E newState \in MOTOR_STATE, clearErrors \in BOOLEAN :
         /\ state # newState
         /\ clearErrors \/ state \in {"ENABLED", "DISABLED"}
         /\ \E angle \in SensorReads(newState) :
              LET call == Pending(newState, clearErrors, state)
              IN  /\ \/ /\ newState = "ENABLED"
                        /\ Commit(relock(Begin(angle, "LOW"), "ENABLED"))
                        /\ pc' = At(IF clearErrors THEN "motor.cpp:511"
                                                   ELSE "motor.cpp:545", call)
                     \/ /\ newState = "FORCED_ENABLED" /\ clearErrors
                        /\ Commit(relock(Begin(angle, "LOW"), "FORCED_ENABLED"))
                        /\ pc' = At("motor.cpp:521", call)
                     \/ /\ newState # "ENABLED"
                        /\ ~(newState = "FORCED_ENABLED" /\ clearErrors)
                        /\ Commit(idleCoils(Begin(angle, "LOW"), newState))
                        /\ pc' = Idle
                  /\ lastOp' = Op("setState", newState, clearErrors, FALSE, 0)
    /\ pre' = state
    /\ UNCHANGED << pid, stepCalls >>

\* The next label of the call in progress: control falls from one case into
\* the next (motor.cpp:511-518) and into the default label (521-524, 545-548)
ContinueSetState ==
    /\ pc.at \in InsideSetState
    /\ \/ /\ pc.at = "motor.cpp:511"
          /\ \E angle \in EncoderAngles :
               Commit(relock(Begin(angle, "LOW"), "FORCED_ENABLED"))
          /\ pc' = At("motor.cpp:521", pc.arg)
       \/ /\ pc.at \in {"motor.cpp:521", "motor.cpp:545"}
          /\ Commit(idleCoils(Begin(0, "LOW"), pc.arg.newState))
          /\ pc' = Idle
    /\ lastOp' = Op("setState", pc.arg.newState, pc.arg.clearErrors, TRUE, 0)
    /\ pre' = pc.arg.old
    /\ UNCHANGED << pid, stepCalls >>

\* An interrupt handler calls motor.getState(): arg of the call is the state
\* returned
GetState ==
    /\ lastOp.op # "getState"
    /\ Commit(Begin(0, "LOW"))
    /\ lastOp' = Op("getState", getState(Begin(0, "LOW")), FALSE, FALSE, 0)
    /\ pre' = state
    /\ UNCHANGED << pid, pc, stepCalls >>

NextStateReads ==
    \/ EnterSetState
    \/ ContinueSetState
    \/ GetState

SpecStateReads == Init /\ [][NextStateReads]_vars

\* ------------------------------------- setCoilA preempted by the step interrupt
\* The calls of setCoilA that setState makes: the default label hands it the
\* idle mode without current (motor.cpp:522, 546), driveCoilsAngle a direction
\* with a power of up to the peak current or a brake (motor.cpp:316-327).
MainCoilCalls ==
    { << IDLE_MODE, 0 >>, << "BRAKE", 0 >>,
      << "FORWARD", peakCurrent >>, << "BACKWARD", peakCurrent >> }

\* The statements of setCoilA that follow the test of motor.cpp:394
InsideSetCoilA ==
    { "motor.cpp:396", "COIL_A_DIR_1_PIN", "COIL_A_DIR_2_PIN", "motor.cpp:418",
      "motor.cpp:422" }

\* What a statement of the main loop's setCoilA leaves in the variables
CoilStatement(m, desiredState, current, next) ==
    /\ Commit(m)
    /\ pc' = IF next = "idle" THEN Idle
             ELSE At(next, [desiredState |-> desiredState, current |-> current])
    /\ lastOp' = Op("setCoilA", desiredState, next = "idle", FALSE, current)
    /\ pre' = state
    /\ UNCHANGED << pid, stepCalls >>

\* motor.cpp:394: the main loop calls setCoilA and compares the desired state
\* with the cached one
EnterSetCoilA ==
    /\ pc.at = "idle"
    /\ \E call \in MainCoilCalls :
         CoilStatement(Log(Begin(0, "LOW"), Event("setCoil", "A", call[1], call[2])),
                       call[1], call[2],
                       IF call[1] # previousCoilStateA THEN "motor.cpp:396"
                                                       ELSE "motor.cpp:422")

\* motor.cpp:396-422, one statement at a time
ContinueSetCoilA ==
    /\ pc.at \in InsideSetCoilA
    /\ LET desiredState == pc.arg.desiredState
           current == pc.arg.current
           lv == DirLevels(desiredState)
           m == Begin(0, "LOW")
       IN  \/ /\ pc.at = "motor.cpp:396"
              /\ CoilStatement(Log([m EXCEPT !.pwmDutyA = 0], Event("pwm", "A", "", 0)),
                               desiredState, current, "COIL_A_DIR_1_PIN")
           \/ /\ pc.at = "COIL_A_DIR_1_PIN"
              /\ CoilStatement(Log([m EXCEPT !.coilADir = << lv[1], @[2] >>],
                                   Event("dir1", "A", lv[1], 0)),
                               desiredState, current, "COIL_A_DIR_2_PIN")
           \/ /\ pc.at = "COIL_A_DIR_2_PIN"
              /\ CoilStatement(Log([m EXCEPT !.coilADir = << @[1], lv[2] >>],
                                   Event("dir2", "A", lv[2], 0)),
                               desiredState, current, "motor.cpp:418")
           \/ /\ pc.at = "motor.cpp:418"
              /\ CoilStatement(Log([m EXCEPT !.previousCoilStateA = desiredState],
                                   Event("cache", "A", desiredState, 0)),
                               desiredState, current, "motor.cpp:422")
           \/ /\ pc.at = "motor.cpp:422"
              /\ CoilStatement(Log([m EXCEPT !.pwmDutyA = currentToPWM(current)],
                                   Event("pwm", "A", "", currentToPWM(current))),
                               desiredState, current, "idle")

\* The step interrupt runs to its end between any two statements of the main
\* loop: nothing in setState or setCoilA masks it
NextCoilPreempt ==
    \/ EnterSetCoilA
    \/ ContinueSetCoilA
    \/ Step

SpecCoilPreempt == Init /\ [][NextCoilPreempt]_vars

\* ------------------------------------------------- the switch of parseCommand
\* parser.cpp:44-400.  The labels of the switch that the forward command, the
\* tuning interface, M350, M502 and M907 take part in, in the order of the
\* source; a build without ENABLE_PID has no case 154 (parser.cpp:86-154).
\* Every case between them (301 .. 356, 500, 501) ends in a return.
ParserCases(enablePID) ==
    IF enablePID THEN << 116, 154, 350, 502, 907 >> ELSE << 116, 350, 502, 907 >>

\* A call of parseCommand under way: the motor, the labels whose statements
\* ran, whether a return was reached, whether the call sits in the loop of
\* parser.cpp:107-110, and whether the processor was reset.
Parsing(m) ==
    [ m |-> m, entered |-> << >>, returned |-> FALSE, loop |-> FALSE,
      rebooted |-> FALSE ]

Return(x) == [x EXCEPT !.returned = TRUE]

\* parser.cpp:346: erases the stored parameters and resets the processor
wipeParameters(x) == [x EXCEPT !.rebooted = TRUE]

\* The statements of one case, up to its return or to the next label
CaseBody(label, x, args) ==
    CASE label = 116 ->
           [x EXCEPT !.m = Log(@, Event("txCAN", "", "", args.S))]
      [] label = 154 ->
           IF args.S < 0 THEN Return(x)
           ELSE Return([x EXCEPT !.loop = TRUE])
      [] label = 350 ->
           IF ToInt16(args.V) # -1
           THEN Return([x EXCEPT !.m = setMicrostepping(@, ToUint16(ToInt16(args.V)))])
           ELSE Return(x)
      [] label = 502 -> wipeParameters(x)
      [] label = 907 ->
           IF ToInt16(args.R) # -1
           THEN Return([x EXCEPT !.m = setRMSCurrent(@, ToUint16(ToInt16(args.R)), args.cast)])
           ELSE IF ToInt16(args.P) # -1
           THEN Return([x EXCEPT !.m = setPeakCurrent(@, ToUint16(ToInt16(args.P)), args.cast)])
           ELSE Return(x)

RECURSIVE RunCases(_, _, _, _)
RunCases(cases, i, x, args) ==
    IF i > Len(cases) \/ x.returned \/ x.rebooted THEN x
    ELSE RunCases(cases, i + 1,
                  CaseBody(cases[i], [x EXCEPT !.entered = Append(@, cases[i])], args),
                  args)

\* switch (parseValue(buffer, 'M').toInt()): control enters at the label of
\* the command and runs on until a return
parseCommand(m, code, args, enablePID) ==
    LET cases == ParserCases(enablePID)
        first == CHOOSE i \in DOMAIN cases : cases[i] = code
    IN  RunCases(cases, first, Parsing(m), args)

\* The values of the letters S, V, R and P of a command, -1 for a letter
\* that is absent, and what an out-of-range cast yields
ParserArgs ==
    [ S : { -1, 0, 1 }, V : { -1, 8 }, R : { -1, 750 }, P : { -1, 1000 },
      cast : CastOutcomes ]

\* One command line is parsed; arg of the call is the sequence of labels
\* whose statements ran, flag1 whether the call is left in the tuning loop,
\* flag2 whether the build has ENABLE_PID
ParseCommand ==
    /\ pc.at = "idle"
    /\ \E enablePID \in BOOLEAN, args \in ParserArgs :
         \E i \in DOMAIN ParserCases(enablePID) :
           LET code == ParserCases(enablePID)[i]
           IN  \E x \in { parseCommand(Begin(0, "LOW"), code, args, enablePID) } :
                 /\ \/ /\ x.rebooted
                       /\ \E cfg \in Configurations : Commit(StepperMotor(cfg))
                       /\ pid' = StepperPID
                    \/ /\ ~x.rebooted
                       /\ Commit(x.m)
                       /\ pid' = pid
                 /\ pc' = IF x.loop THEN At("parser.cpp:107", args.S) ELSE Idle
                 /\ lastOp' = Op("parseCommand", x.entered, x.loop, enablePID, code)
                 /\ pre' = state
                 /\ UNCHANGED stepCalls

\* parser.cpp:107-113: serial data ends the loop of the tuning interface
SerialAvailable ==
    /\ pc.at = "parser.cpp:107"
    /\ Commit(Begin(0, "LOW"))
    /\ pc' = Idle
    /\ lastOp' = Op("Serial.available", "", FALSE, FALSE, 0)
    /\ pre' = state
    /\ UNCHANGED << pid, stepCalls >>

NextParser ==
    \/ ParseCommand
    \/ SerialAvailable

SpecParser == Init /\ [][NextParser]_vars

NextCommands ==
    \/ M93
    \/ M350
    \/ M355
    \/ M352

SpecCommands == Init /\ [][NextCommands]_vars
\* ================================================================ claims
\* The entries of a trace of a kind, as sets of positions
CoilCalls(tr, states) ==
    { i \in DOMAIN tr : tr[i].ev = "setCoil" /\ tr[i].level \in states }

DirWrites(tr, ch) ==
    { i \in DOMAIN tr : tr[i].ev \in {"dir1", "dir2"} /\ tr[i].ch = ch }

LockStates == {"FORWARD", "BACKWARD", "BRAKE"}

ForcedOrError == MOTOR_STATE \ {"ENABLED", "DISABLED"}

\* The coil re-lock comes first in the trace: the sensor is read, both coils
\* get a lock command, and every idle command follows every lock command.
RelockBeforeIdle(tr) ==
    LET lock == CoilCalls(tr, LockStates)
        idle == CoilCalls(tr, {IDLE_MODE})
    IN  /\ tr # << >>
        /\ tr[1].ev = "getAngle"
        /\ \E i \in lock : tr[i].ch = "A"
        /\ \E i \in lock : tr[i].ch = "B"
        /\ \A i \in idle : \A j \in lock : j < i

\* C1: while the state is neither ENABLED nor DISABLED, setState(x, false)
\* leaves the state, currentAngle and both coils (cache, direction pins, PWM
\* duty) as they were, for every target x.
C1_ForcedStatesSticky ==
    [][ (lastOp'.op = "setState" /\ ~lastOp'.flag1 /\ state \in ForcedOrError)
          => /\ state' = state
             /\ currentAngle' = currentAngle
             /\ previousCoilStateA' = previousCoilStateA
             /\ previousCoilStateB' = previousCoilStateB
             /\ coilADir' = coilADir /\ coilBDir' = coilBDir
             /\ pwmDutyA' = pwmDutyA /\ pwmDutyB' = pwmDutyB ]_vars

\* setState(ENABLED, false) was called in FORCED_DISABLED and left it there.
C1_Witness ==
    /\ lastOp.op = "setState" /\ lastOp.arg = "ENABLED" /\ ~lastOp.flag1
    /\ pre = "FORCED_DISABLED"
    /\ state = "FORCED_DISABLED"

\* C2: setState(t, true) called in a state other than t returns with the
\* state equal to t, for every t.
C2_ClearErrorsUnconditional ==
    (lastOp.op = "setState" /\ lastOp.flag1 /\ lastOp.arg # pre)
        => state = lastOp.arg

\* setState(ENABLED, true) was called in OVERTEMP.
C2_Witness ==
    /\ lastOp.op = "setState" /\ lastOp.arg = "ENABLED" /\ lastOp.flag1
    /\ pre = "OVERTEMP"
    /\ state = "ENABLED"

\* C3: setState(s, clearErrors) called in state s changes nothing, for both
\* values of clearErrors: state, currentAngle, currentStep, coil caches,
\* direction pins and PWM duties keep their values, and nothing (the angle
\* sensor included) is read or written.
C3_SameStateNoOp ==
    [][ (lastOp'.op = "setState" /\ lastOp'.arg = state)
          => /\ state' = state
             /\ currentAngle' = currentAngle
             /\ currentStep' = currentStep
             /\ previousCoilStateA' = previousCoilStateA
             /\ previousCoilStateB' = previousCoilStateB
             /\ coilADir' = coilADir /\ coilBDir' = coilBDir
             /\ pwmDutyA' = pwmDutyA /\ pwmDutyB' = pwmDutyB
             /\ trace' = << >> ]_vars

\* setState(ENABLED, true) was called in ENABLED.
C3_Witness ==
    /\ lastOp.op = "setState" /\ lastOp.arg = "ENABLED" /\ lastOp.flag1
    /\ pre = "ENABLED"
    /\ state = "ENABLED"

\* C4: setState(ENABLED, false) called in DISABLED returns with both coils
\* energized at the re-lock phase (cached states FORWARD, BACKWARD or BRAKE),
\* not in idle mode.
C4_EnableLeavesCoilsLocked ==
    (lastOp.op = "setState" /\ lastOp.arg = "ENABLED" /\ ~lastOp.flag1
        /\ pre = "DISABLED")
        => /\ previousCoilStateA \in LockStates
           /\ previousCoilStateB \in LockStates

\* C5: setState(ENABLED, false) called in DISABLED ends in ENABLED, and in
\* that call the coil re-lock (after the sensor read) comes before any idle
\* coil write.
C5_RelockBeforeIdle ==
    (lastOp.op = "setState" /\ lastOp.arg = "ENABLED" /\ ~lastOp.flag1
        /\ pre = "DISABLED")
        => /\ state = "ENABLED"
           /\ RelockBeforeIdle(trace)

\* setState(ENABLED, false) was called in DISABLED and wrote idle commands.
C5_Witness ==
    /\ lastOp.op = "setState" /\ lastOp.arg = "ENABLED" /\ ~lastOp.flag1
    /\ pre = "DISABLED"
    /\ CoilCalls(trace, {IDLE_MODE}) # {}
    /\ CoilCalls(trace, LockStates) # {}

C7_NoCoilWriteWhileDisabled ==
    (lastOp.op \in {"step", "simpleStep"} /\ pre \in {"DISABLED", "FORCED_DISABLED"})
        => \A i \in DOMAIN trace :
              /\ trace[i].ev \notin {"dir1", "dir2"}
              /\ (trace[i].ev = "pwm" => trace[i].val = 0)

\* C8: after construction the state is DISABLED, both coil caches are
\* IDLE_MODE and both PWM duties are 0.
C8_ConstructedDisabled ==
    lastOp.op = "StepperMotor"
        => /\ state = "DISABLED"
           /\ previousCoilStateA = IDLE_MODE /\ previousCoilStateB = IDLE_MODE
           /\ pwmDutyA = 0 /\ pwmDutyB = 0

\* The motor has just been constructed: the constructor's setState ran in
\* MOTOR_NOT_SET and drove the direction pins.
C8_Witness ==
    /\ lastOp.op = "StepperMotor"
    /\ pre = "MOTOR_NOT_SET"
    /\ DirWrites(trace, "A") # {} /\ DirWrites(trace, "B") # {}

\* What C9 says of one call: the PWM duty is set to currentToPWM(current) by
\* the last write of the call.
PwmSet(tr, ch, duty, current) ==
    /\ duty = currentToPWM(current)
    /\ tr # << >>
    /\ tr[Len(tr)] = Event("pwm", ch, "", currentToPWM(current))

C10_MicrostepAngleDerived ==
    /\ microstepDivisor \in Microsteppings
    /\ microstepAngle * microstepDivisor = fullStepAngle

\* setFullStepAngle(0.9) was called with the divisor at 32.
C10_Witness ==
    /\ lastOp.op = "setFullStepAngle" /\ lastOp.num = (9 * Deg) \div 10
    /\ microstepDivisor = 32
    /\ fullStepAngle = (9 * Deg) \div 10
    /\ microstepAngle = 36

\* C11: setMicrostepping(v) with v outside {1,2,4,8,16,32} (0, 3, 64, ...)
\* leaves microstepDivisor and microstepAngle unchanged, so microstepDivisor
\* is always in {1,2,4,8,16,32} and the modulus 4 * microstepDivisor of
\* driveCoils is never zero.
C11_InvalidDivisorRejected ==
    /\ [][ (lastOp'.op = "M350" /\ lastOp'.num \notin Microsteppings)
             => /\ microstepDivisor' = microstepDivisor
                /\ microstepAngle' = microstepAngle ]_vars
    /\ [](microstepDivisor \in Microsteppings /\ 4 * microstepDivisor # 0)

\* C12: setFullStepAngle(a) with a other than 1.8 and 0.9 leaves
\* fullStepAngle and microstepAngle unchanged; with a equal to 1.8 or 0.9 it
\* stores a and microstepAngle becomes a / microstepDivisor.
C12_OnlyCommonStepAngles ==
    [][ lastOp'.op = "setFullStepAngle"
          => IF lastOp'.num \in { (18 * Deg) \div 10, (9 * Deg) \div 10 }
             THEN /\ fullStepAngle' = lastOp'.num
                  /\ microstepAngle' * microstepDivisor = lastOp'.num
                  /\ microstepDivisor' = microstepDivisor
             ELSE /\ fullStepAngle' = fullStepAngle
                  /\ microstepAngle' = microstepAngle ]_vars

\* setFullStepAngle(1.0) was called after the angle had been set to 0.9 and
\* the divisor to 8: the angle is still 0.9.
C12_Witness ==
    /\ lastOp.op = "setFullStepAngle" /\ lastOp.num = Deg
    /\ fullStepAngle = (9 * Deg) \div 10
    /\ microstepDivisor = 8
    /\ microstepAngle = 144

\* The coil commands of a call: its calls of setCoilA and setCoilB, each with
\* the channel, the state and the magnitude, in order.
Commands(tr) == SelectSeq(tr, LAMBDA e : e.ev = "setCoil")

\* C13: for every signed step count s (negative ones included), every valid
\* microstepDivisor and every integer k, driveCoils(s) and
\* driveCoils(s + 4 * microstepDivisor * k) issue the same coil commands.
C13_DriveCoilsPeriodic ==
    lastOp.op = "driveCoils"
        => \A k \in Periods :
              Commands(driveCoils(Begin(0, "LOW"),
                                  lastOp.num + (4 * microstepDivisor * k)).trace)
                  = Commands(trace)

\* C14: for every angle a and every integer k, driveCoilsAngle(a + 360 k)
\* issues the same coil commands as driveCoilsAngle(a).
C14_DriveCoilsAnglePeriodic ==
    lastOp.op = "driveCoilsAngle"
        => \A k \in Periods :
              Commands(driveCoilsAngle(Begin(0, "LOW"),
                                       lastOp.num + (360 * Deg * k)).trace)
                  = Commands(trace)

\* driveCoilsAngle(370) was called at 1.8 degrees and 16 microsteps: the
\* commands are those of microstep 89 (10 degrees), sine index 25.
C14_Witness ==
    /\ lastOp.op = "driveCoilsAngle" /\ lastOp.num = 370 * Deg
    /\ fullStepAngle = (18 * Deg) \div 10 /\ microstepDivisor = 16
    /\ Commands(trace) = << Event("setCoil", "A", "FORWARD", 941),
                            Event("setCoil", "B", "FORWARD", 336) >>

\* round(current * factor), the factor in thousandths
Rounded(current, thousandths) == RoundDiv(current * thousandths, 1000)

\* C15: for every 16 bit X, after setRMSCurrent(X) getPeakCurrent() returns
\* round(X * 1.414) clamped to the board peak maximum; for every 16 bit Y,
\* after setPeakCurrent(Y) getRMSCurrent() returns round(Y * 0.707) clamped
\* to the board RMS maximum.
C15_DerivedCurrentRounded ==
    /\ lastOp.op = "setRMSCurrent"
          => peakCurrent = constrain(Rounded(lastOp.num, 1414), 0,
                                     MAX_PEAK_BOARD_CURRENT)
    /\ lastOp.op = "setPeakCurrent"
          => rmsCurrent = constrain(Rounded(lastOp.num, 707), 0,
                                    MAX_RMS_BOARD_CURRENT)

\* The values a current derives: the other current by rounding or by
\* dropping the fraction, clamped to the board maximum.
DerivedFrom(current, thousandths, max) ==
    { constrain(Rounded(current, thousandths), 0, max),
      constrain(Scaled(current, thousandths), 0, max) }

\* C16: after any sequence of setRMSCurrent and setPeakCurrent calls with 16
\* bit arguments, 0 <= rmsCurrent <= MAX_RMS_BOARD_CURRENT and 0 <=
\* peakCurrent <= MAX_PEAK_BOARD_CURRENT, and the stored peak is the value
\* derived from the stored RMS or the stored RMS is the value derived from
\* the stored peak.
C16_CurrentsClampedAndConsistent ==
    /\ 0 <= rmsCurrent /\ rmsCurrent <= MAX_RMS_BOARD_CURRENT
    /\ 0 <= peakCurrent /\ peakCurrent <= MAX_PEAK_BOARD_CURRENT
    /\ \/ peakCurrent \in DerivedFrom(rmsCurrent, 1414, MAX_PEAK_BOARD_CURRENT)
       \/ rmsCurrent \in DerivedFrom(peakCurrent, 707, MAX_RMS_BOARD_CURRENT)

\* C17: when M907 passes a negative current (M907 R-5, M907 P-5) to
\* setRMSCurrent or setPeakCurrent, or a setter is called with the sentinel
\* -1, rmsCurrent and peakCurrent keep their values.
C17_NegativeCurrentIgnored ==
    [][ (\/ /\ lastOp'.op = "M907"
            /\ \/ lastOp'.arg.R < -1
               \/ lastOp'.arg.R = -1 /\ lastOp'.arg.P < 0
         \/ /\ lastOp'.op \in {"setRMSCurrent", "setPeakCurrent"}
            /\ ToInt16(lastOp'.num) = -1)
          => /\ rmsCurrent' = rmsCurrent
             /\ peakCurrent' = peakCurrent ]_vars

\* C18: in a dynamic current build, an M907 command changes only the factors
\* it supplies: a factor of A, I, M that the command does not give keeps its
\* value.
C18_AbsentFactorsKept ==
    [][ lastOp'.op = "M907Dynamic"
          => /\ lastOp'.arg.A = -1 => dynamicAccelCurrent' = dynamicAccelCurrent
             /\ lastOp'.arg.I = -1 => dynamicIdleCurrent' = dynamicIdleCurrent
             /\ lastOp'.arg.M = -1 => dynamicMaxCurrent' = dynamicMaxCurrent ]_vars

\* C19: the microstep multiplier is positive in every reachable state:
\* setMicrostepMultiplier(m) with m <= 0 (M355 V0, M355 V-2) leaves it
\* unchanged.
C19_MultiplierPositive ==
    /\ [][ (lastOp'.op = "M355" /\ lastOp'.num <= 0)
             => microstepMultiplier' = microstepMultiplier ]_vars
    /\ [](microstepMultiplier > 0)

\* C20: in every valid configuration step(CLOCKWISE, false, true) decreases
\* desiredAngle and currentAngle by microstepAngle and currentStep by 1,
\* and step(COUNTER_CLOCKWISE, false, true) increases them by the same
\* amounts, whatever the reversed flag and the direction pin (which is not
\* read).
C20_NamedDirectionStep ==
    [][ (/\ lastOp'.op = "step" /\ ~lastOp'.flag1 /\ lastOp'.flag2
         /\ lastOp'.arg \in {"CLOCKWISE", "COUNTER_CLOCKWISE"})
          => LET sign == IF lastOp'.arg = "CLOCKWISE" THEN -1 ELSE 1
             IN  /\ microstepAngle > 0
                 /\ desiredAngle' = desiredAngle + (sign * microstepAngle)
                 /\ currentAngle' = currentAngle + (sign * microstepAngle)
                 /\ currentStep' = currentStep + sign
                 /\ \A i \in DOMAIN trace' : trace'[i].ev # "readDir" ]_vars

\* step(CLOCKWISE, false, true) was called on a reversed motor at 0.9
\* degrees and 32 microsteps, as the first step: desiredAngle went down by
\* 0.028125 degree.
C20_Witness ==
    /\ lastOp.op = "step" /\ lastOp.arg = "CLOCKWISE"
    /\ ~lastOp.flag1 /\ lastOp.flag2
    /\ reversed = -1
    /\ microstepAngle = 36 /\ microstepDivisor = 32
    /\ stepCalls = 1
    /\ desiredAngle = -36 /\ currentStep = -1

\* The coil commands driveCoils(steps) issues with the peak current as it is
\* after the call
DrivenWith(steps) == Commands(driveCoils(Begin(0, "LOW"), steps).trace)

\* C21: step(dir, useMultiplier, false) leaves desiredAngle unchanged for
\* every dir and useMultiplier; it still adds the increment (one microstep
\* angle, times the multiplier if useMultiplier) to currentAngle, adds the
\* signed step increment to currentStep and drives the coils with the new
\* currentStep.  With updateDesiredAngle true, desiredAngle changes by
\* exactly the increment currentAngle changes by.
C21_DesiredAngleFrame ==
    [][ lastOp'.op = "step"
          => LET inc == currentAngle' - currentAngle
                 size == IF lastOp'.flag1
                         THEN (microstepAngle * microstepMultiplier) \div MultOne
                         ELSE microstepAngle
                 steps == IF lastOp'.flag1 THEN microstepMultiplier \div MultOne ELSE 1
             IN  /\ size > 0 /\ Abs(inc) = size
                 /\ desiredAngle' = IF lastOp'.flag2 THEN desiredAngle + inc
                                                     ELSE desiredAngle
                 /\ currentStep' = currentStep + (getSign(inc) * steps)
                 /\ Commands(trace') = DrivenWith(currentStep)' ]_vars

\* step(PIN, true, false) was called after a step that moved desiredAngle,
\* with the multiplier 1.5: currentAngle moved on, desiredAngle stayed.
C21_Witness ==
    /\ lastOp.op = "step" /\ lastOp.arg = "PIN"
    /\ lastOp.flag1 /\ ~lastOp.flag2
    /\ microstepMultiplier = 6
    /\ stepCalls = 2
    /\ desiredAngle # 0 /\ currentAngle # desiredAngle
    /\ Len(trace) > 1

C23_GetReversedReturnsSet ==
    (lastOp.op = "M352" /\ lastOp.num \in {0, 1})
        => (getReversed(Begin(0, "LOW")) <=> (lastOp.num = 1))

\* C27: single-writer discipline for the position accumulators: only step()
\* and simpleStep() write currentAngle or currentStep; setState (the one
\* main-loop operation here) writes neither, so it never overwrites an
\* increment a timer-interrupt step() has made.
C27_OnlyStepsWriteAccumulators ==
    [][ lastOp'.op \notin {"step", "simpleStep"}
          => /\ currentAngle' = currentAngle
             /\ currentStep' = currentStep ]_vars

\* The (rmsCurrent, peakCurrent) pairs one setter call writes, and the pair
\* of construction
PairsOfOneCall ==
    { << cfg.rmsCurrent, cfg.peakCurrent >> : cfg \in Configurations }
      \cup { << m.rmsCurrent, m.peakCurrent >> :
               m \in { setRMSCurrent(Begin(0, "LOW"), c, "saturate") : c \in PreemptCurrents }
                     \cup { setPeakCurrent(Begin(0, "LOW"), c, "saturate") :
                              c \in PreemptCurrents } }

\* C28: a timer-interrupt step() never observes a half-updated
\* configuration: whenever step() has run, also between the statements of a
\* setMicrostepping, setFullStepAngle, setRMSCurrent or setPeakCurrent call
\* of the main loop, microstepAngle equals fullStepAngle / microstepDivisor
\* and (rmsCurrent, peakCurrent) is the pair written by one setter call.
C28_StepSeesWholeConfiguration ==
    lastOp.op = "step"
        => /\ microstepAngle = fullStepAngle \div microstepDivisor
           /\ << rmsCurrent, peakCurrent >> \in PairsOfOneCall

\* The positions of a trace at which the PWM duty of a channel is written
PwmWrites(tr, ch) == { i \in DOMAIN tr : tr[i].ev = "pwm" /\ tr[i].ch = ch }

\* The order of the writes of one setCoil call that changes the state of
\* channel ch to desiredState: the duty is 0 when a direction pin is
\* written, the direction pins are written before the cache, and a duty
\* other than 0 is written after the pins, which then hold levels.
ChangeInOrder(tr, ch, desiredState, levels) ==
    LET dirs == DirWrites(tr, ch)
        pwms == PwmWrites(tr, ch)
        cache == { i \in DOMAIN tr : tr[i].ev = "cache" /\ tr[i].ch = ch }
    IN  /\ \E z \in pwms : tr[z].val = 0 /\ \A i \in dirs \cup cache : z < i
        /\ \A d \in dirs : \A i \in pwms : i < d => tr[i].val = 0
        /\ \E c \in cache : cache = {c} /\ tr[c].level = desiredState
        /\ \A d \in dirs : \A c \in cache : d < c
        /\ \A i \in pwms : tr[i].val # 0 => \A d \in dirs : d < i
        /\ desiredState # "COIL_NOT_SET"
              => /\ \E d1, d2 \in dirs :
                      /\ dirs = {d1, d2} /\ d1 < d2
                      /\ tr[d1].ev = "dir1" /\ tr[d2].ev = "dir2"
                      /\ << tr[d1].level, tr[d2].level >> = levels
                 /\ levels = DirLevels(desiredState)

\* C29: within a setCoil call that changes the coil state, the channel's PWM
\* duty is set to 0 before either direction pin is written, both direction
\* pins are written before the cache is updated, and a non-zero duty is
\* applied only after both pins hold the new state's values: whenever a
\* direction pin changes, the duty of its channel is 0.
C29_PinsChangeAtZeroDuty ==
    [][ /\ (lastOp'.op = "setCoilA" /\ lastOp'.arg # previousCoilStateA)
             => ChangeInOrder(trace', "A", lastOp'.arg, coilADir')
        /\ (lastOp'.op = "setCoilB" /\ lastOp'.arg # previousCoilStateB)
             => ChangeInOrder(trace', "B", lastOp'.arg, coilBDir') ]_vars

\* setCoilA(BACKWARD, 500) changed the state of coil A: duty 0, both pins,
\* the cache, then the duty of 500 mA.
C29_Witness ==
    /\ lastOp.op = "setCoilA" /\ lastOp.arg = "BACKWARD" /\ lastOp.num = 500
    /\ Len(trace) = 6
    /\ trace[2] = Event("pwm", "A", "", 0)
    /\ trace[3] = Event("dir1", "A", "LOW", 0)
    /\ trace[4] = Event("dir2", "A", "HIGH", 0)
    /\ trace[5] = Event("cache", "A", "BACKWARD", 0)
    /\ trace[6].ev = "pwm" /\ trace[6].val > 0

\* The truth table of the H-bridge
TruthTableRow(cached) ==
    CASE cached = "FORWARD"  -> << "HIGH", "LOW" >>
      [] cached = "BACKWARD" -> << "LOW", "HIGH" >>
      [] cached = "BRAKE"    -> << "HIGH", "HIGH" >>
      [] cached = "COAST"    -> << "LOW", "LOW" >>

\* C30: after any sequence of setCoilA and setCoilB calls, whenever the
\* cached state of a channel is FORWARD, BACKWARD, BRAKE or COAST, its two
\* direction pins hold the truth-table row of the cached state.
C30_CacheMatchesPins ==
    /\ previousCoilStateA # "COIL_NOT_SET"
          => coilADir = TruthTableRow(previousCoilStateA)
    /\ previousCoilStateB # "COIL_NOT_SET"
          => coilBDir = TruthTableRow(previousCoilStateB)

\* Coil A was set to BRAKE while the cache of coil B holds COIL_NOT_SET and
\* its pins the levels of BACKWARD, written before.
C30_Witness ==
    /\ lastOp.op = "setCoilA" /\ lastOp.arg = "BRAKE"
    /\ previousCoilStateA = "BRAKE" /\ coilADir = << "HIGH", "HIGH" >>
    /\ previousCoilStateB = "COIL_NOT_SET" /\ coilBDir = << "LOW", "HIGH" >>
    /\ DirWrites(trace, "A") # {}

\* C24: the value fed to the PID controller as its input on every compute()
\* call is desiredAngle minus the measured absolute angle (positive when the
\* shaft is behind the target).
C24_InputIsDesiredMinusMeasured ==
    lastOp.op = "compute" => pid.input = desiredAngle - lastOp.arg.angle

\* The output limits in force
Limits(p) == << p.pid.outMin, p.pid.outMax >>

\* C25: every value compute() returns lies within the output limits in
\* force: DEFAULT_PID_STEP_MIN..DEFAULT_PID_STEP_MAX from construction on,
\* the limits of the last setOutputLimits(min, max) after one; compute and
\* the gain setters leave the limits alone, and a tick on which the
\* controller does not recompute returns a value within them too.
C25_OutputWithinLimits ==
    /\ Limits(pid) = << DEFAULT_PID_STEP_MIN, DEFAULT_PID_STEP_MAX >>
    /\ [][ /\ lastOp'.op = "setOutputLimits"
                 => Limits(pid)' = << lastOp'.arg.min, lastOp'.arg.max >>
           /\ lastOp'.op \in {"compute", "M301"} => Limits(pid)' = Limits(pid)
           /\ lastOp'.op = "compute"
                 => /\ lastOp'.arg.ret >= Limits(pid)'[1]
                    /\ lastOp'.arg.ret <= Limits(pid)'[2] ]_vars

\* compute() returned 3 on a tick without recomputation, under the limits
\* -2..3 of a setOutputLimits call, with the last sampled error far outside
\* them.
C25_Witness ==
    /\ lastOp.op = "compute" /\ ~lastOp.flag1
    /\ Limits(pid) = << -2, 3 >>
    /\ lastOp.arg.ret = 3
    /\ pid.input = 144

\* C26: each gain setter changes only its own gain of the controller: after
\* an M301 command the getter of every gain the command names returns the
\* value given, and the getter of every gain it does not name returns what
\* it returned before.
C26_GainSettersFrame ==
    [][ lastOp'.op = "M301"
          => LET given == lastOp'.arg
             IN  /\ getP(pid)' = IF given.P # -1 THEN given.P ELSE getP(pid)
                 /\ getI(pid)' = IF given.I # -1 THEN given.I ELSE getI(pid)
                 /\ getD(pid)' = IF given.D # -1 THEN given.D ELSE getD(pid) ]_vars

\* M301 P0 was the first setter call: getP() returns 0, getI() and getD()
\* still return the gains of construction.
C26_Witness ==
    /\ lastOp.op = "M301"
    /\ lastOp.arg = [P |-> 0, I |-> -1, D |-> -1]
    /\ getP(pid) = 0 /\ getI(pid) = DEFAULT_I /\ getD(pid) = DEFAULT_D
    /\ pid.output = 0 /\ pid.pid.outputSum = 0

\* C32: the step increment is equivalent to the angle increment for every
\* multiplier: after step(dir, true, _) with a positive multiplier, 1.5
\* included, the change of currentStep times microstepAngle equals the
\* change of currentAngle.
C32_StepEquivalentToAngle ==
    [][ (lastOp'.op = "step" /\ lastOp'.flag1 /\ microstepMultiplier > 0)
          => (currentStep' - currentStep) * microstepAngle
                 = currentAngle' - currentAngle ]_vars

\* The command of a channel for the signed power p
CommandFor(ch, p) ==
    IF p > 0 THEN Event("setCoil", ch, "FORWARD", p)
    ELSE IF p < 0 THEN Event("setCoil", ch, "BACKWARD", -p)
    ELSE Event("setCoil", ch, "BRAKE", 0)

\* C33: for every step count driveCoils commands each coil by its signed
\* power p = (peakCurrent x table value) / SINE_MAX: FORWARD with magnitude
\* p for p > 0, BACKWARD with magnitude -p for p < 0, BRAKE with magnitude 0
\* for p = 0; coil A takes the sine entry and coil B the cosine entry of one
\* table index, the index driveCoils derives from the step count.
C33_SignSelectsCommand ==
    [][ lastOp'.op = "driveCoils"
          => LET index == MaskIndex(CRem(lastOp'.num, 4 * microstepDivisor))
                 quarter == (index + (SINE_VAL_COUNT \div 4)) % SINE_VAL_COUNT
                 pA == CDiv(peakCurrent * sineTable[index + 1], SINE_MAX)
                 pB == CDiv(peakCurrent * sineTable[quarter + 1], SINE_MAX)
             IN  Commands(trace') = << CommandFor("A", pA), CommandFor("B", pB) >> ]_vars

\* driveCoils(-3) at 16 microsteps and 1000 mA: index 125 of the table,
\* coil A backward, coil B forward.
C33_Witness ==
    /\ lastOp.op = "driveCoils" /\ lastOp.num = -3
    /\ microstepDivisor = 16 /\ peakCurrent = 1000
    /\ pwmDutyA = currentToPWM(Commands(trace)[1].val)
    /\ Len(Commands(trace)) = 2
    /\ Commands(trace)[1].level = "BACKWARD" /\ Commands(trace)[1].val > 0
    /\ Commands(trace)[2].level = "FORWARD" /\ Commands(trace)[2].val > 0

\* C34: for every 16-bit current, currentToPWM(current) lies in
\* 0..PWM_MAX_DUTY_CYCLE, is 0 for the current 0 and does not decrease when
\* the current grows: of two calls in a row on one channel, the one with the
\* larger current leaves the larger or the same duty.
C34_DutyBoundedAndMonotone ==
    [][ /\ lastOp'.op = "setCoilA"
           => /\ pwmDutyA' \in 0 .. PWM_MAX_DUTY_CYCLE
              /\ lastOp'.num = 0 => pwmDutyA' = 0
              /\ (lastOp.op = "setCoilA" /\ lastOp.num <= lastOp'.num)
                    => pwmDutyA <= pwmDutyA'
        /\ lastOp'.op = "setCoilB"
           => /\ pwmDutyB' \in 0 .. PWM_MAX_DUTY_CYCLE
              /\ lastOp'.num = 0 => pwmDutyB' = 0
              /\ (lastOp.op = "setCoilB" /\ lastOp.num <= lastOp'.num)
                    => pwmDutyB <= pwmDutyB' ]_vars

\* setCoilA with 65535 mA: the duty is the full duty cycle.
C34_Witness ==
    /\ lastOp.op = "setCoilA" /\ lastOp.num = 65535
    /\ pwmDutyA = PWM_MAX_DUTY_CYCLE
    /\ pwmDutyB < pwmDutyA /\ pwmDutyB > 0

\* The step count driveCoilsAngle drives the coils to for the tracked angle
LockSteps ==
    RoundDiv(ConstrainAngle(RoundAngle(currentAngle)) * microstepDivisor, fullStepAngle)

\* C35: after a setState to ENABLED or FORCED_ENABLED that re-locked the
\* coils, the step accumulator agrees with the phase the coils were locked
\* at: the first step() after it drives the coils to the phase one step
\* increment away from the re-lock phase, not to a phase derived from the
\* currentStep of before the transition.
C35_FirstStepFromLockPhase ==
    [][ (/\ lastOp.op = "setState"
         /\ lastOp.arg \in {"ENABLED", "FORCED_ENABLED"}
         /\ trace # << >>
         /\ lastOp'.op = "step")
          => (trace[1].ev = "getAngle"
                => Commands(trace')
                     = DrivenWith(LockSteps + (currentStep' - currentStep))) ]_vars

\* C36: currentAngle and currentStep advance in lockstep under every
\* stepping primitive: a call of step() or simpleStep() changes currentAngle
\* by the change of currentStep times microstepAngle; simpleStep() advances
\* currentAngle by the angle of its currentStep increment.
C36_AngleAndStepInLockstep ==
    [][ lastOp'.op \in {"step", "simpleStep"}
          => currentAngle' - currentAngle
                 = (currentStep' - currentStep) * microstepAngle ]_vars

\* C37: during setState(t, clearErrors) the stored state takes only the
\* values old state and t: an interrupt that calls getState() while the
\* call is executing gets the state the call found or its target, never
\* FORCED_ENABLED during setState(ENABLED, true).
C37_OnlyOldOrTargetObserved ==
    (lastOp.op = "getState" /\ pc.at \in InsideSetState)
        => lastOp.arg \in {pc.arg.old, pc.arg.newState}

\* C38: in the static current build the magnitude driveCoils hands to
\* setCoilA and setCoilB is never negative and never above peakCurrent, for
\* every step count and every peakCurrent that setRMSCurrent and
\* setPeakCurrent leave.
C38_MagnitudeWithinPeak ==
    [][ lastOp'.op = "driveCoils"
          => LET handed == Commands(trace')
             IN  /\ Len(handed) = 2
                 /\ \A i \in 1 .. 2 :
                       /\ handed[i].val >= 0
                       /\ handed[i].val <= peakCurrent ]_vars

\* driveCoils(0) with the peak current at the board limit: coil B gets the
\* whole peak current.
C38_Witness ==
    /\ lastOp.op = "driveCoils" /\ lastOp.num = 0
    /\ peakCurrent = MAX_PEAK_BOARD_CURRENT
    /\ Commands(trace)[1] = Event("setCoil", "A", "BRAKE", 0)
    /\ Commands(trace)[2] = Event("setCoil", "B", "FORWARD", MAX_PEAK_BOARD_CURRENT)

\* C39: every recognised M-code runs the statements of its own case only and
\* then returns: M116 does not enter the tuning interface of M154 and changes
\* no motor parameter, M502 does not run the statements of M907.
C39_OnlyOwnCaseRuns ==
    lastOp.op = "parseCommand" => lastOp.arg = << lastOp.num >>

\* M502 resets the processor before the statements of M907 are reached
C39_WipeStopsAtReset ==
    (lastOp.op = "parseCommand" /\ lastOp.num = 502) => lastOp.arg = << 502 >>

\* C31: when a step interrupt preempts the main loop inside setCoilA, then
\* once both have finished the direction pins of the channel are the truth
\* table row of its cached state, and at no time is a non-zero duty applied
\* while the pins hold another combination than the row of the cached state.
C31_PinsMatchCacheAfterPreemption ==
    /\ pc.at = "idle" => coilADir = DirLevels(previousCoilStateA)
    /\ pwmDutyA # 0 => coilADir = DirLevels(previousCoilStateA)

\* The first half alone: the pins after both have finished
C31_PinsMatchCacheAtRest ==
    pc.at = "idle" => coilADir = DirLevels(previousCoilStateA)

\* The second half alone: no duty on pins that differ from the cached row
C31_NoDutyOnOtherPins ==
    pwmDutyA # 0 => coilADir = DirLevels(previousCoilStateA)
====
